---- MODULE Spec2Model ----
(***************************************************************************)
(* A model of the atomic-swap contracts of monyverse/infusion:             *)
(*   - the NEAR escrow contract  near-contracts/fusion-escrow/src/lib.rs   *)
(*   - the Solana HTLC program   src/contracts/solana/programs/htlc        *)
(*   - the NEAR pool contract    near-contracts/fusion-pool/src/lib.rs     *)
(*   - the NEAR solver contract  near-contracts/fusion-solver/src/lib.rs   *)
(* Every contract method is one action.  A method that panics (a failed    *)
(* assert!, expect, require! or a checked arithmetic overflow) leaves the  *)
(* contract state as it was: the runtime discards the receipt's writes.    *)
(* The ...Error operators give the panic message a call would end with, in *)
(* the order the code checks, and "" when the call goes through.           *)
(***************************************************************************)
EXTENDS Integers, Naturals, Sequences, FiniteSets, TLC

VARIABLES
    \* ---- FusionEscrow fields (fusion-escrow/src/lib.rs:121-137)
    owner, fee_rate, min_timelock, max_timelock,
    orders, user_orders, supported_tokens,
    total_swaps, total_volume, total_fees, cross_chain_swaps,
    \* ---- the Solana HTLC program's accounts (htlc/src/lib.rs:261-273)
    htlcs,
    \* ---- the FusionPool contract (fusion-pool/src/lib.rs:97-126), one record
    \*      whose fields are the struct's fields
    fusion_pool,
    \* ---- the FusionSolver contract (fusion-solver/src/lib.rs:133-162), one
    \*      record whose fields are the struct's fields
    fusion_solver,
    \* ---- environment
    now,              \* wall-clock time in seconds, read by both ledgers
    transfers,        \* every ft_transfer promise the escrow issued, with its outcome
    instance,         \* order id -> which create_order call wrote the stored record
    overflow_checks,  \* whether the build panics on integer overflow
    known,            \* the preimages each account has seen
    result,           \* the call that produced the current state
    creates,          \* number of successful create_order calls so far
    pool_calls,       \* number of successful pool calls so far, the owner's
                      \* and the activation setters apart
    solver_calls,     \* number of successful solver-contract calls so far,
                      \* the owner's apart
    quotes            \* the quote responses provide_quote has returned

escrowVars == <<owner, fee_rate, min_timelock, max_timelock, orders, user_orders,
                supported_tokens, total_swaps, total_volume, total_fees,
                cross_chain_swaps>>
envVars == <<now, transfers, instance, overflow_checks, known, result, creates,
            pool_calls>>
solverVars == <<fusion_solver, solver_calls, quotes>>
vars == <<escrowVars, htlcs, fusion_pool, solverVars, envVars>>

----------------------------------------------------------------------------
(* Bounds of the model *)

\* Number of pool calls in a behaviour (setters apart).
MaxPoolCalls == 5
\* Width in bits that stands for the 128 bits of U128.
AmountWidth == 16
\* Stands for the 1_000_000_000 nanoseconds per second of lib.rs:203.
NanosPerSec == 2
\* Successful create_order calls in one behaviour.
MaxCreates == 2
\* Number of solver-contract calls in a behaviour (the owner's apart).
MaxSolverCalls == 4

Modulus == 2 ^ AmountWidth

Accounts == {"owner", "alice", "bob"}
Parties == {"alice", "bob"}
Admins == {"owner", "bob"}
Escrow == "escrow"
Tokens == {"usdc", "wnear"}
Secrets == {"s1", "s2"}
\* The instants at which a block may be produced.
Instants == {0, 3600, 7200}

----------------------------------------------------------------------------
(* Hash / time primitives *)

\* env::sha256 on the bytes of a secret: a fixed injective table of digests.
Sha256(secret) ==
    CASE secret = "s1" -> <<171, 18>>
      [] secret = "s2" -> <<5, 254>>
      [] OTHER -> <<0, 0>>

HexDigits == <<"0", "1", "2", "3", "4", "5", "6", "7", "8", "9", "a", "b", "c", "d", "e", "f">>

\* hex::encode: two lowercase hexadecimal digits per byte.
RECURSIVE HexEncode(_)
HexEncode(bytes) ==
    IF bytes = <<>> THEN ""
    ELSE HexDigits[(Head(bytes) \div 16) + 1] \o HexDigits[(Head(bytes) % 16) + 1]
         \o HexEncode(Tail(bytes))

\* Unsigned arithmetic of the amounts' width as a build without overflow
\* checks computes it.
WrapAdd(a, b) == (a + b) % Modulus
WrapSub(a, b) == (a - b) % Modulus
WrapMul(a, b) ==
    LET base == 2 ^ (AmountWidth \div 2)
        hi == a \div base
        lo == a % base
    IN  (((((hi * b) % Modulus) * base) % Modulus) + (lo * b)) % Modulus

\* env::block_timestamp(): nanoseconds.
block_timestamp == now * NanosPerSec

----------------------------------------------------------------------------
(* Calls and transfers *)

\* `result` names the call that produced the current state, if one did.
NoCall == [op |-> "none", caller |-> "", id |-> "", secret |-> ""]
Call(op, caller, id, secret) ==
    [op |-> op, caller |-> caller, id |-> id, secret |-> secret]

\* A panicking call: the runtime discards every state change of the receipt.
Rejected == UNCHANGED vars

\* The outcome so far of the fund_order transfer of the record stored at id.
FundingStatus(id) ==
    LET mine == {t \in transfers : t.kind = "fund" /\ t.order_id = id
                                   /\ t.gen = instance[id]}
    IN  IF mine = {} THEN "none" ELSE (CHOOSE t \in mine : TRUE).status

\* An ft_transfer promise: receiver, amount and its outcome.  The other fields
\* are bookkeeping of the model: the order and the create_order call it came
\* from, its from_amount, the fee kept back and the fee rate when the transfer
\* was issued, and whether the order's funding transfer had succeeded by then.
Transfer(kind, id, receiver, amount, fee) ==
    [kind |-> kind, order_id |-> id, gen |-> instance[id], receiver |-> receiver,
     amount |-> amount, fee |-> fee, status |-> "pending",
     from_amount |-> orders[id].from_amount, rate |-> fee_rate,
     backed |-> (kind = "fund" \/ FundingStatus(id) = "ok")]

----------------------------------------------------------------------------
(* FusionEscrow *)

\* Stands for the 10^21 yoctoNEAR (about 2^70 of the 2^128 of U128) of
\* fusion-pool lib.rs:148: like it, just above the square root of the modulus.
InitialMinDepositAmount == 2 ^ (AmountWidth \div 2 + 1)

\* Stands for the 10^23 yoctoNEAR (100 NEAR) of fusion-solver lib.rs:182.
InitialMinSolverStake == 2 ^ (AmountWidth \div 2 + 2)

\* FusionEscrow::new(owner), FusionPool::new(owner, solver_contract) and
\* FusionSolver::new(owner, escrow_contract)
Init ==
    /\ owner = "owner"
    /\ fee_rate = 30
    /\ min_timelock = 3600
    /\ max_timelock = 86400
    /\ orders = <<>>
    /\ user_orders = <<>>
    /\ supported_tokens = {}
    /\ total_swaps = 0
    /\ total_volume = 0
    /\ total_fees = 0
    /\ cross_chain_swaps = <<>>
    /\ htlcs = <<>>
    /\ fusion_pool = [owner |-> "owner", solver_contract |-> "solver",
                      pools |-> <<>>, solver_pools |-> <<>>, providers |-> <<>>,
                      user_pools |-> <<>>, rewards |-> <<>>, transactions |-> <<>>,
                      total_pools |-> 0, total_providers |-> 0, total_liquidity |-> 0,
                      total_rewards_distributed |-> 0,
                      min_pool_fee |-> 10, max_pool_fee |-> 1000,
                      reward_distribution_interval |-> 86400 * NanosPerSec,
                      min_deposit_amount |-> InitialMinDepositAmount]
    /\ pool_calls = 0
    /\ fusion_solver = [owner |-> "owner", escrow_contract |-> Escrow,
                        solvers |-> <<>>, active_solvers |-> <<>>,
                        pools |-> <<>>, solver_pools |-> <<>>,
                        orders |-> <<>>, user_orders |-> <<>>, pending_orders |-> <<>>,
                        signatures |-> <<>>,
                        total_orders |-> 0, total_volume |-> 0, total_fees |-> 0,
                        min_solver_stake |-> InitialMinSolverStake,
                        max_solver_fee |-> 500,
                        quote_timeout |-> 300 * NanosPerSec]
    /\ solver_calls = 0
    /\ quotes = {}
    /\ now = 0
    /\ transfers = {}
    /\ instance = <<>>
    /\ overflow_checks \in BOOLEAN
    /\ known = [a \in Accounts |->
                    IF a = "alice" THEN {"s1"} ELSE IF a = "bob" THEN {"s2"} ELSE {}]
    /\ result = NoCall
    /\ creates = 0

OrderId(maker) == "order_" \o maker \o "_" \o ToString(block_timestamp)

\* create_order as it would be without the allow-list assertions of lines 178-185.
CreateOrderErrorWithoutAllowList(from_token, to_token, timelock) ==
    IF ~(timelock >= min_timelock /\ timelock <= max_timelock)
    THEN "Timelock must be between min and max seconds"
    ELSE ""

CreateOrderError(from_token, to_token, timelock) ==
    IF ~(timelock >= min_timelock /\ timelock <= max_timelock)
    THEN "Timelock must be between min and max seconds"
    ELSE IF from_token \notin supported_tokens THEN "From token not supported"
    ELSE IF to_token \notin supported_tokens THEN "To token not supported"
    ELSE ""

create_order(caller, taker, from_token, to_token, from_amount, to_amount, hashlock, timelock) ==
    LET err == CreateOrderError(from_token, to_token, timelock)
        order_id == OrderId(caller)
        order == [id |-> order_id, maker |-> caller, taker |-> taker,
                  from_token |-> from_token, to_token |-> to_token,
                  from_amount |-> from_amount, to_amount |-> to_amount,
                  hashlock |-> hashlock, secret |-> <<>>, timelock |-> timelock,
                  status |-> "Pending", created_at |-> block_timestamp,
                  expires_at |-> block_timestamp + timelock * NanosPerSec]
        mine == IF caller \in DOMAIN user_orders THEN user_orders[caller] ELSE <<>>
    IN  IF err # "" THEN Rejected
        ELSE /\ creates < MaxCreates
             /\ creates' = creates + 1
             /\ orders' = [x \in DOMAIN orders \cup {order_id} |->
                             IF x = order_id THEN order ELSE orders[x]]
             /\ user_orders' = [a \in DOMAIN user_orders \cup {caller} |->
                                  IF a = caller THEN Append(mine, order_id)
                                  ELSE user_orders[a]]
             /\ instance' = [x \in DOMAIN instance \cup {order_id} |->
                               IF x = order_id THEN creates + 1 ELSE instance[x]]
             /\ result' = Call("create_order", caller, order_id, "")
             /\ UNCHANGED <<owner, cross_chain_swaps, fee_rate, min_timelock, max_timelock,
                            supported_tokens, total_swaps, total_volume, total_fees,
                            htlcs, fusion_pool, pool_calls, now, transfers, overflow_checks, solverVars, known>>

\* fund_order as it would be without the maker assertion of lines 220-224.
FundOrderErrorAnyCaller(order_id, caller) ==
    IF order_id \notin DOMAIN orders THEN "Order not found"
    ELSE IF orders[order_id].status # "Pending" THEN "Order must be pending"
    ELSE ""

FundOrderError(order_id, caller) ==
    IF order_id \notin DOMAIN orders THEN "Order not found"
    ELSE IF orders[order_id].status # "Pending" THEN "Order must be pending"
    ELSE IF caller # orders[order_id].maker THEN "Only maker can fund order"
    ELSE ""

\* The status is written before the ft_transfer promise is created, and the
\* promise has no callback (lib.rs:226-233).
fund_order(caller, order_id) ==
    LET err == FundOrderError(order_id, caller)
    IN  IF err # "" THEN Rejected
        ELSE /\ orders' = [orders EXCEPT ![order_id].status = "Funded"]
             /\ transfers' = transfers \cup
                    {Transfer("fund", order_id, Escrow, orders[order_id].from_amount, 0)}
             /\ result' = Call("fund_order", caller, order_id, "")
             /\ UNCHANGED <<owner, cross_chain_swaps, fee_rate, min_timelock, max_timelock, user_orders,
                            supported_tokens, total_swaps, total_volume, total_fees,
                            htlcs, fusion_pool, pool_calls, now, instance, overflow_checks, solverVars, known, creates>>

\* lib.rs:259  (order.from_amount.0 * self.fee_rate as u128) / 10000
FeeAmount(from_amount, rate) == WrapMul(from_amount, rate) \div 10000

\* The payout as it would be if the fee were not subtracted.
TransferAmountWithoutFee(from_amount, fee_amount) == from_amount

\* lib.rs:260  order.from_amount.0 - fee_amount
TransferAmount(from_amount, fee_amount) == WrapSub(from_amount, fee_amount)

\* The arithmetic of lib.rs:259-265 overflows and the build checks for it.
ClaimArithmeticPanics(from_amount) ==
    LET fee_amount == FeeAmount(from_amount, fee_rate)
    IN  /\ overflow_checks
        /\ \/ from_amount * fee_rate >= Modulus
           \/ fee_amount > from_amount
           \/ total_volume + from_amount >= Modulus
           \/ total_fees + fee_amount >= Modulus

\* lib.rs:247-252  hex::encode(env::sha256(secret.as_bytes())) == order.hashlock
SecretMatches(secret, hashlock) == HexEncode(Sha256(secret)) = hashlock

\* claim_order as it would be if line 239 also let a Claimed order through.
ClaimOrderErrorAcceptingClaimed(order_id, caller, secret) ==
    IF order_id \notin DOMAIN orders THEN "Order not found"
    ELSE IF orders[order_id].status \notin {"Funded", "Claimed"} THEN "Order must be funded"
    ELSE IF caller # orders[order_id].taker THEN "Only taker can claim order"
    ELSE IF ~SecretMatches(secret, orders[order_id].hashlock) THEN "Invalid secret"
    ELSE ""

\* claim_order as it would be without the hashlock comparison of lines 246-252.
ClaimOrderErrorAnySecret(order_id, caller, secret) ==
    IF order_id \notin DOMAIN orders THEN "Order not found"
    ELSE IF orders[order_id].status # "Funded" THEN "Order must be funded"
    ELSE IF caller # orders[order_id].taker THEN "Only taker can claim order"
    ELSE IF ClaimArithmeticPanics(orders[order_id].from_amount)
         THEN "attempt to compute with overflow"
    ELSE ""

ClaimOrderError(order_id, caller, secret) ==
    IF order_id \notin DOMAIN orders THEN "Order not found"
    ELSE IF orders[order_id].status # "Funded" THEN "Order must be funded"
    ELSE IF caller # orders[order_id].taker THEN "Only taker can claim order"
    ELSE IF ~SecretMatches(secret, orders[order_id].hashlock) THEN "Invalid secret"
    ELSE IF ClaimArithmeticPanics(orders[order_id].from_amount)
         THEN "attempt to compute with overflow"
    ELSE ""

claim_order(caller, order_id, secret) ==
    LET err == ClaimOrderError(order_id, caller, secret)
        order == orders[order_id]
        fee_amount == FeeAmount(order.from_amount, fee_rate)
        transfer_amount == TransferAmount(order.from_amount, fee_amount)
    IN  IF err # "" THEN Rejected
        ELSE /\ orders' = [orders EXCEPT ![order_id].status = "Claimed",
                                         ![order_id].secret = <<secret>>]
             /\ total_swaps' = total_swaps + 1
             /\ total_volume' = WrapAdd(total_volume, order.from_amount)
             /\ total_fees' = WrapAdd(total_fees, fee_amount)
             /\ transfers' = transfers \cup
                    {Transfer("claim", order_id, order.taker, transfer_amount, fee_amount)}
             /\ known' = [a \in Accounts |-> known[a] \cup {secret}]
             /\ result' = Call("claim_order", caller, order_id, secret)
             /\ UNCHANGED <<owner, cross_chain_swaps, fee_rate, min_timelock, max_timelock, user_orders,
                            supported_tokens, htlcs, fusion_pool, pool_calls, now, instance, overflow_checks, solverVars,
                            creates>>

\* refund_order as it would be if line 277 also let a Claimed order through.
RefundOrderErrorAcceptingClaimed(order_id, caller) ==
    IF order_id \notin DOMAIN orders THEN "Order not found"
    ELSE IF orders[order_id].status \notin {"Funded", "Claimed"} THEN "Order must be funded"
    ELSE IF caller # orders[order_id].maker THEN "Only maker can refund order"
    ELSE IF ~(block_timestamp >= orders[order_id].expires_at) THEN "Timelock not expired"
    ELSE ""

\* refund_order as it would be without the timelock assertion of lines 283-286.
RefundOrderErrorWithoutTimelock(order_id, caller) ==
    IF order_id \notin DOMAIN orders THEN "Order not found"
    ELSE IF orders[order_id].status # "Funded" THEN "Order must be funded"
    ELSE IF caller # orders[order_id].maker THEN "Only maker can refund order"
    ELSE ""

RefundOrderError(order_id, caller) ==
    IF order_id \notin DOMAIN orders THEN "Order not found"
    ELSE IF orders[order_id].status # "Funded" THEN "Order must be funded"
    ELSE IF caller # orders[order_id].maker THEN "Only maker can refund order"
    ELSE IF ~(block_timestamp >= orders[order_id].expires_at) THEN "Timelock not expired"
    ELSE ""

refund_order(caller, order_id) ==
    LET err == RefundOrderError(order_id, caller)
        order == orders[order_id]
    IN  IF err # "" THEN Rejected
        ELSE /\ orders' = [orders EXCEPT ![order_id].status = "Refunded"]
             /\ transfers' = transfers \cup
                    {Transfer("refund", order_id, order.maker, order.from_amount, 0)}
             /\ result' = Call("refund_order", caller, order_id, "")
             /\ UNCHANGED <<owner, cross_chain_swaps, fee_rate, min_timelock, max_timelock, user_orders,
                            supported_tokens, total_swaps, total_volume, total_fees,
                            htlcs, fusion_pool, pool_calls, now, instance, overflow_checks, solverVars, known, creates>>

OnlyOwner(caller) == caller = owner

add_supported_token(caller, token) ==
    IF ~OnlyOwner(caller) THEN Rejected
    ELSE /\ supported_tokens' = supported_tokens \cup {token}
         /\ result' = Call("add_supported_token", caller, token, "")
         /\ UNCHANGED <<owner, cross_chain_swaps, fee_rate, min_timelock, max_timelock, orders, user_orders,
                        total_swaps, total_volume, total_fees, htlcs, fusion_pool, pool_calls, now, transfers,
                        instance, overflow_checks, solverVars, known, creates>>

remove_supported_token(caller, token) ==
    IF ~OnlyOwner(caller) THEN Rejected
    ELSE /\ supported_tokens' = supported_tokens \ {token}
         /\ result' = Call("remove_supported_token", caller, token, "")
         /\ UNCHANGED <<owner, cross_chain_swaps, fee_rate, min_timelock, max_timelock, orders, user_orders,
                        total_swaps, total_volume, total_fees, htlcs, fusion_pool, pool_calls, now, transfers,
                        instance, overflow_checks, solverVars, known, creates>>

SetFeeRateError(caller, rate) ==
    IF ~OnlyOwner(caller) THEN "Only owner can set fee rate"
    ELSE IF ~(rate <= 1000) THEN "Fee rate cannot exceed 10%"
    ELSE ""

set_fee_rate(caller, rate) ==
    LET err == SetFeeRateError(caller, rate)
    IN  IF err # "" THEN Rejected
        ELSE /\ fee_rate' = rate
             /\ result' = Call("set_fee_rate", caller, ToString(rate), "")
             /\ UNCHANGED <<owner, cross_chain_swaps, min_timelock, max_timelock, orders, user_orders,
                            supported_tokens, total_swaps, total_volume, total_fees,
                            htlcs, fusion_pool, pool_calls, now, transfers, instance, overflow_checks, solverVars, known,
                            creates>>

SetTimelockLimitsError(caller, min, max) ==
    IF ~OnlyOwner(caller) THEN "Only owner can set timelock limits"
    ELSE IF ~(min < max) THEN "Min timelock must be less than max"
    ELSE ""

set_timelock_limits(caller, min, max) ==
    LET err == SetTimelockLimitsError(caller, min, max)
    IN  IF err # "" THEN Rejected
        ELSE /\ min_timelock' = min
             /\ max_timelock' = max
             /\ result' = Call("set_timelock_limits", caller, ToString(min), "")
             /\ UNCHANGED <<owner, cross_chain_swaps, fee_rate, orders, user_orders, supported_tokens,
                            total_swaps, total_volume, total_fees, htlcs, fusion_pool, pool_calls, now,
                            transfers, instance, overflow_checks, solverVars, known, creates>>

----------------------------------------------------------------------------
(* Environment *)

\* The token contract runs an ft_transfer promise, which succeeds or fails.
\* No method of the escrow is called back with the outcome.
ResolveTransfer(t, outcome) ==
    /\ t \in transfers
    /\ t.status = "pending"
    /\ transfers' = (transfers \ {t}) \cup {[t EXCEPT !.status = outcome]}
    /\ result' = NoCall
    /\ UNCHANGED <<escrowVars, htlcs, fusion_pool, pool_calls, now, instance, overflow_checks, solverVars, known, creates>>

AdvanceClock(t) ==
    /\ t > now
    /\ now' = t
    /\ result' = NoCall
    /\ UNCHANGED <<escrowVars, htlcs, fusion_pool, pool_calls, transfers, instance, overflow_checks, solverVars, known,
                   creates>>

\* Order ids a caller may name: the stored ones and one that is not stored.
OrderIds == DOMAIN orders \cup {"order_none"}

----------------------------------------------------------------------------
(* The escrow's order protocol: every interleaving of the calls, of the     *)
(* transfers' outcomes and of the clock, over orders of one shape.          *)

EscrowInstants == {0, 3600}
EscrowTimelocks == {3600, 86401}
EscrowFeeRates == {30, 1001}
EscrowTimelockLimits == {<<3600, 86400>>, <<3600, 3600>>}

EscrowNext ==
    \/ \E tl \in EscrowTimelocks :
            create_order("alice", "bob", "usdc", "wnear", 1000, 950, HexEncode(Sha256("s1")), tl)
    \/ \E c \in Parties, id \in OrderIds : fund_order(c, id)
    \/ \E c \in Parties, id \in OrderIds, s \in Secrets : claim_order(c, id, s)
    \/ \E c \in Parties, id \in OrderIds : refund_order(c, id)
    \/ \E c \in Admins, tok \in Tokens : add_supported_token(c, tok)
    \/ \E c \in Admins, r \in EscrowFeeRates : set_fee_rate(c, r)
    \/ \E c \in Admins, l \in EscrowTimelockLimits : set_timelock_limits(c, l[1], l[2])
    \/ \E t \in transfers, o \in {"ok", "failed"} : ResolveTransfer(t, o)
    \/ \E t \in EscrowInstants : AdvanceClock(t)

EscrowSpec == Init /\ [][EscrowNext]_vars

----------------------------------------------------------------------------
(* The claim arithmetic: one maker and one taker, no clock, and orders of    *)
(* many amounts and hashlocks claimed under every fee rate the owner can set.*)

ClaimAmounts == {1, 1000, Modulus - 1}
\* The lowercase hex of a digest, and the same digest in uppercase hex.
ClaimHashlocks == {HexEncode(Sha256("s1")), "AB12"}
ClaimFeeRates == {0, 1000, 1001}

ClaimNext ==
    \/ \E a \in ClaimAmounts, h \in ClaimHashlocks :
            create_order("alice", "bob", "usdc", "wnear", a, 950, h, 3600)
    \/ \E id \in DOMAIN orders : fund_order("alice", id)
    \/ \E id \in DOMAIN orders, s \in Secrets : claim_order("bob", id, s)
    \/ \E tok \in Tokens : add_supported_token("owner", tok)
    \/ \E r \in ClaimFeeRates : set_fee_rate("owner", r)

ClaimSpec == Init /\ [][ClaimNext]_vars

----------------------------------------------------------------------------
(* Properties of the escrow *)

RECURSIVE SumAmounts(_)
SumAmounts(S) ==
    IF S = {} THEN 0
    ELSE LET t == CHOOSE x \in S : TRUE IN t.amount + SumAmounts(S \ {t})

RECURSIVE SumFees(_)
SumFees(S) ==
    IF S = {} THEN 0
    ELSE LET t == CHOOSE x \in S : TRUE IN t.fee + SumFees(S \ {t})

Issued(kinds) == {t \in transfers : t.kind \in kinds}
IssuedFor(kinds, id, g) == {t \in Issued(kinds) : t.order_id = id /\ t.gen = g}
Generations == 1..(MaxCreates + 1)

\* C1: fund_order leaves an order Funded only once the maker-to-escrow
\* transfer is confirmed successful; an order whose funding transfer failed
\* is back in Pending, never Funded without backing funds.
C1_FundedOnlyWhenTransferConfirmed ==
    \A id \in DOMAIN orders :
        /\ orders[id].status = "Funded" => FundingStatus(id) = "ok"
        /\ FundingStatus(id) = "failed" => orders[id].status = "Pending"

\* C2: the escrow issues a payout or a refund only for an order whose funding
\* transfer was confirmed successful, so what it has sent out never exceeds
\* what confirmed funding transfers brought in.
C2_PayoutsOnlyFromConfirmedFunding ==
    /\ \A t \in Issued({"claim", "refund"}) : t.backed
    /\ SumAmounts({t \in Issued({"claim", "refund"}) : t.status = "ok"})
         <= SumAmounts({t \in Issued({"fund"}) : t.status = "ok"})

\* C5: a claim is accepted once per order: while an order is Claimed every
\* claim_order on it, by anyone and with any secret, ends "Order must be
\* funded"; no order record has two payouts; and the counters count each
\* accepted claim once.
C5_ClaimAcceptedOnce ==
    /\ \A id \in DOMAIN orders : orders[id].status = "Claimed" =>
          \A c \in Accounts, s \in Secrets :
              ClaimOrderError(id, c, s) = "Order must be funded"
    /\ \A id \in DOMAIN orders, g \in Generations :
          Cardinality(IssuedFor({"claim"}, id, g)) <= 1
    /\ total_swaps = Cardinality(Issued({"claim"}))
    /\ total_volume = (SumAmounts(Issued({"claim"})) + SumFees(Issued({"claim"}))) % Modulus
    /\ total_fees = SumFees(Issued({"claim"})) % Modulus

\* A claim went through and the order is Claimed, its secret on record.
C5_Witness ==
    /\ result.op = "claim_order"
    /\ orders[result.id].status = "Claimed"
    /\ SecretMatches(result.secret, orders[result.id].hashlock)

\* C6: claim and refund exclude each other: no order record has more than one
\* of {payout, refund} issued, a Refunded order rejects every claim for its
\* status, and a Claimed order rejects every refund for its status.
C6_ClaimXorRefund ==
    /\ \A id \in DOMAIN orders, g \in Generations :
          Cardinality(IssuedFor({"claim", "refund"}, id, g)) <= 1
    /\ \A id \in DOMAIN orders : orders[id].status = "Refunded" =>
          \A c \in Accounts, s \in Secrets :
              ClaimOrderError(id, c, s) = "Order must be funded"
    /\ \A id \in DOMAIN orders : orders[id].status = "Claimed" =>
          \A c \in Accounts : RefundOrderError(id, c) = "Order must be funded"

\* An order was refunded after its expiry while its taker knew the secret
\* that matches its hashlock.
C6_Witness ==
    \E id \in DOMAIN orders :
        /\ orders[id].status = "Refunded"
        /\ block_timestamp >= orders[id].expires_at
        /\ \E s \in Secrets : SecretMatches(s, orders[id].hashlock)

\* A step that is a successful refund_order.
RefundStep == result'.op = "refund_order" /\ orders' # orders

\* C7: before expires_at every refund_order on a Funded order is rejected (by
\* the maker with "Timelock not expired") and the order stays Funded; a refund
\* that succeeds is the maker's, on a Funded order at now >= expires_at, makes
\* it Refunded and issues one transfer of the full from_amount to the maker.
C7_RefundOnlyAfterExpiry ==
    /\ [](\A id \in DOMAIN orders :
            (orders[id].status = "Funded" /\ block_timestamp < orders[id].expires_at) =>
                /\ \A c \in Accounts : RefundOrderError(id, c) # ""
                /\ RefundOrderError(id, orders[id].maker) = "Timelock not expired")
    /\ [][RefundStep =>
            LET id == result'.id
            IN  /\ orders[id].status = "Funded"
                /\ result'.caller = orders[id].maker
                /\ block_timestamp >= orders[id].expires_at
                /\ orders'[id] = [orders[id] EXCEPT !.status = "Refunded"]
                /\ \E t \in transfers' \ transfers :
                      /\ transfers' = transfers \cup {t}
                      /\ t.kind = "refund"
                      /\ t.receiver = orders[id].maker
                      /\ t.amount = orders[id].from_amount
                      /\ t.fee = 0]_vars

\* A refund went through at or after the order's expiry.
C7_Witness ==
    /\ result.op = "refund_order"
    /\ orders[result.id].status = "Refunded"
    /\ block_timestamp >= orders[result.id].expires_at

\* C9: Claimed, Refunded and Expired are terminal: no call changes the status
\* stored under an order id once it is one of them.
C9_TerminalStatusNeverChanges ==
    [][\A id \in DOMAIN orders :
          orders[id].status \in {"Claimed", "Refunded", "Expired"} =>
              /\ id \in DOMAIN orders'
              /\ orders'[id].status = orders[id].status]_vars

----------------------------------------------------------------------------
(* Properties of the claim arithmetic and the secret check (ClaimSpec) *)

\* C4: for a Funded order and a call by its taker, claim_order succeeds if and
\* only if the secret hashes to the stored hashlock.
C4_ClaimSucceedsIffSecretMatches ==
    \A id \in DOMAIN orders : orders[id].status = "Funded" =>
        \A s \in Secrets :
            (ClaimOrderError(id, orders[id].taker, s) = "")
                <=> SecretMatches(s, orders[id].hashlock)

\* C10: every payout issued by claim_order satisfies fee + payout =
\* from_amount and payout <= from_amount, whatever from_amount and whatever
\* fee_rate set_fee_rate accepted; the fee is the truncated quotient whenever
\* the product fits the word; from_amount 1000 at rate 30 gives 3 and 997.
C10_FeePlusPayoutIsFromAmount ==
    \A t \in Issued({"claim"}) :
        /\ t.fee + t.amount = t.from_amount
        /\ t.amount <= t.from_amount
        /\ t.rate <= 1000
        /\ t.from_amount * t.rate < Modulus => t.fee = (t.from_amount * t.rate) \div 10000
        /\ (t.from_amount = 1000 /\ t.rate = 30) => (t.fee = 3 /\ t.amount = 997)

\* A claim of an order of 1000 went through at 30 basis points.
C10_Witness ==
    /\ result.op = "claim_order"
    /\ \E t \in Issued({"claim"}) :
          /\ t.order_id = result.id
          /\ t.from_amount = 1000
          /\ t.rate = 30
          /\ t.fee = 3

----------------------------------------------------------------------------
(* The Solana HTLC program (src/contracts/solana/programs/htlc/src/lib.rs). *)
(* The program's HTLCAccount is taken as initialized.  An instruction that  *)
(* returns Err, or whose account constraints fail, changes no account.      *)
(* Clock::get()?.unix_timestamp is `now`.  token_ok is the outcome of the   *)
(* instruction's token::transfer CPI.                                       *)

\* The account the seeds [b"htlc", hashlock] of lib.rs:148 derive.
HtlcAddress(hashlock) == "htlc_" \o HexEncode(hashlock)

\* anchor_lang::solana_program::hash::hash is SHA-256 (lib.rs:70).
Hash(preimage) == Sha256(preimage)

\* CreateHtlcError without the `init` constraint of the htlc account.
CreateHtlcErrorOnExisting(hashlock, timelock, amount, token_ok) ==
    IF ~(timelock > now) THEN "Invalid timelock"
    ELSE IF ~(amount > 0) THEN "Invalid amount"
    ELSE IF ~token_ok THEN "token transfer failed"
    ELSE ""

CreateHtlcError(hashlock, timelock, amount, token_ok) ==
    IF HtlcAddress(hashlock) \in DOMAIN htlcs THEN "account already in use"
    ELSE IF ~(timelock > now) THEN "Invalid timelock"
    ELSE IF ~(amount > 0) THEN "Invalid amount"
    ELSE IF ~token_ok THEN "token transfer failed"
    ELSE ""

create_htlc(sender, recipient, hashlock, timelock, amount, token_ok) ==
    LET err == CreateHtlcError(hashlock, timelock, amount, token_ok)
        htlc == [sender |-> sender, recipient |-> recipient, hashlock |-> hashlock,
                 timelock |-> timelock, amount |-> amount, withdrawn |-> FALSE,
                 refunded |-> FALSE, preimage |-> <<>>, created_at |-> now,
                 htlc_token_account |-> amount]
    IN  IF err # "" THEN Rejected
        ELSE /\ htlcs' = [a \in DOMAIN htlcs \cup {HtlcAddress(hashlock)} |->
                            IF a = HtlcAddress(hashlock) THEN htlc ELSE htlcs[a]]
             /\ result' = Call("create_htlc", sender, HtlcAddress(hashlock), "")
             /\ UNCHANGED <<escrowVars, fusion_pool, pool_calls, now, transfers, instance, overflow_checks, solverVars,
                            known, creates>>

\* RedeemHtlcError without the comparison of the signer with htlc.recipient.
RedeemHtlcErrorAnyCaller(address, caller, preimage, token_ok) ==
    IF address \notin DOMAIN htlcs THEN "account not initialized"
    ELSE IF htlcs[address].withdrawn THEN "Already withdrawn"
    ELSE IF htlcs[address].refunded THEN "Already refunded"
    ELSE IF ~(htlcs[address].htlc_token_account >= htlcs[address].amount)
         THEN "constraint violated"
    ELSE IF htlcs[address].hashlock # Hash(preimage) THEN "Invalid preimage"
    ELSE IF ~token_ok THEN "token transfer failed"
    ELSE ""

RedeemHtlcError(address, caller, preimage, token_ok) ==
    IF address \notin DOMAIN htlcs THEN "account not initialized"
    ELSE IF htlcs[address].withdrawn THEN "Already withdrawn"
    ELSE IF htlcs[address].refunded THEN "Already refunded"
    ELSE IF ~(htlcs[address].htlc_token_account >= htlcs[address].amount)
         THEN "constraint violated"
    ELSE IF htlcs[address].recipient # caller THEN "Invalid recipient"
    ELSE IF htlcs[address].hashlock # Hash(preimage) THEN "Invalid preimage"
    ELSE IF ~token_ok THEN "token transfer failed"
    ELSE ""

\* The preimage is an instruction argument and is stored in the account
\* (lib.rs:74): every account has seen it afterwards.
redeem_htlc(caller, address, preimage, token_ok) ==
    LET err == RedeemHtlcError(address, caller, preimage, token_ok)
    IN  IF err # "" THEN Rejected
        ELSE /\ htlcs' = [htlcs EXCEPT
                            ![address].withdrawn = TRUE,
                            ![address].preimage = <<preimage>>,
                            ![address].htlc_token_account = @ - htlcs[address].amount]
             /\ known' = [a \in Accounts |-> known[a] \cup {preimage}]
             /\ result' = Call("redeem_htlc", caller, address, preimage)
             /\ UNCHANGED <<escrowVars, fusion_pool, pool_calls, now, transfers, instance, overflow_checks, solverVars,
                            creates>>

RefundHtlcError(address, caller, token_ok) ==
    IF address \notin DOMAIN htlcs THEN "account not initialized"
    ELSE IF htlcs[address].withdrawn THEN "Already withdrawn"
    ELSE IF htlcs[address].refunded THEN "Already refunded"
    ELSE IF ~(htlcs[address].htlc_token_account >= htlcs[address].amount)
         THEN "constraint violated"
    ELSE IF htlcs[address].sender # caller THEN "Invalid sender"
    ELSE IF ~(now >= htlcs[address].timelock) THEN "Timelock not expired"
    ELSE IF ~token_ok THEN "token transfer failed"
    ELSE ""

refund_htlc(caller, address, token_ok) ==
    LET err == RefundHtlcError(address, caller, token_ok)
    IN  IF err # "" THEN Rejected
        ELSE /\ htlcs' = [htlcs EXCEPT
                            ![address].refunded = TRUE,
                            ![address].htlc_token_account = @ - htlcs[address].amount]
             /\ result' = Call("refund_htlc", caller, address, "")
             /\ UNCHANGED <<escrowVars, fusion_pool, pool_calls, now, transfers, instance, overflow_checks, solverVars,
                            known, creates>>

----------------------------------------------------------------------------
(* SwapSpec: a two-leg swap on one hashlock.  Leg A is an escrow order of   *)
(* alice (who chose the secret) for bob; leg B is bob's HTLC for alice.     *)

SwapHashlock == Sha256("s1")
SwapHtlcTimelocks == {0, 3600, 7200}
SwapHtlcAmounts == {0, 950}
HtlcAddresses == DOMAIN htlcs \cup {HtlcAddress(Sha256("s2"))}

SwapNext ==
    \/ \E tok \in Tokens : add_supported_token("owner", tok)
    \/ create_order("alice", "bob", "usdc", "wnear", 1000, 950, HexEncode(SwapHashlock), 3600)
    \/ \E id \in OrderIds : fund_order("alice", id)
    \/ \E t \in transfers, o \in {"ok", "failed"} : ResolveTransfer(t, o)
    \/ \E c \in Parties, id \in OrderIds : \E s \in known[c] : claim_order(c, id, s)
    \/ \E c \in Parties, id \in OrderIds : refund_order(c, id)
    \/ \E tl \in SwapHtlcTimelocks, a \in SwapHtlcAmounts, ok \in BOOLEAN :
          create_htlc("bob", "alice", SwapHashlock, tl, a, ok)
    \/ \E c \in Parties, h \in HtlcAddresses, ok \in BOOLEAN :
          \E p \in known[c] : redeem_htlc(c, h, p, ok)
    \/ \E c \in Parties, h \in HtlcAddresses, ok \in BOOLEAN : refund_htlc(c, h, ok)
    \/ \E t \in Instants : AdvanceClock(t)

SwapSpec == Init /\ [][SwapNext]_vars

\* C3: in a two-leg swap on one hashlock no party ends with both legs'
\* assets: there is no state in which the escrow order of a maker was refunded
\* to the maker while the HTLC the taker funded for the maker under the same
\* hashlock was redeemed by the maker.
C3_NoPartyTakesBothLegs ==
    \A id \in DOMAIN orders, h \in DOMAIN htlcs :
        ~ /\ HexEncode(htlcs[h].hashlock) = orders[id].hashlock
          /\ htlcs[h].sender = orders[id].taker
          /\ htlcs[h].recipient = orders[id].maker
          /\ orders[id].status = "Refunded"
          /\ FundingStatus(id) = "ok"
          /\ \E t \in IssuedFor({"refund"}, id, instance[id]) : t.status = "ok"
          /\ htlcs[h].withdrawn

\* C8: a claim is accepted only before the expiry: a successful claim_order
\* happened at block_timestamp < expires_at of its order, and a successful
\* redeem_htlc at now < timelock of its HTLC.
C8_NoClaimAfterExpiry ==
    /\ result.op = "claim_order" => block_timestamp < orders[result.id].expires_at
    /\ result.op = "redeem_htlc" => now < htlcs[result.id].timelock

----------------------------------------------------------------------------
(* Further properties of the escrow (EscrowSpec) *)

\* C11: a failed payout or refund transfer rolls the order back: no order is
\* Claimed or Refunded while the transfer that was to deliver its funds has
\* failed, and the counters do not count a claim whose payout failed.
C11_FailedTransferRollsBack ==
    /\ \A t \in Issued({"claim", "refund"}) :
          (t.status = "failed" /\ t.gen = instance[t.order_id]) =>
              orders[t.order_id].status \notin {"Claimed", "Refunded"}
    /\ total_swaps = Cardinality({t \in Issued({"claim"}) : t.status # "failed"})

\* A step that is a successful create_order.
CreateStep == creates' = creates + 1

\* C12: create_order assigns a fresh id: the id it returns is not the id of a
\* stored order, so no create call overwrites an existing order.
C12_CreateNeverOverwrites ==
    [][CreateStep => result'.id \notin DOMAIN orders]_vars

\* The timelocks and tokens create_order is probed with.
ProbeTimelocks == {min_timelock - 1, min_timelock, max_timelock, max_timelock + 1}
ProbeTokens == Tokens \cup {"dai"}

C14_CallerAndStateRestricted ==
    /\ [](\A id \in OrderIds, c \in Accounts :
            /\ FundOrderError(id, c) = "" =>
                  (orders[id].status = "Pending" /\ c = orders[id].maker)
            /\ \A s \in Secrets : ClaimOrderError(id, c, s) = "" =>
                  (orders[id].status = "Funded" /\ c = orders[id].taker)
            /\ RefundOrderError(id, c) = "" =>
                  (orders[id].status = "Funded" /\ c = orders[id].maker))
    /\ [][\A id \in DOMAIN orders :
            (~CreateStep /\ orders'[id] # orders[id]) =>
                /\ result'.id = id
                /\ \/ /\ result'.op = "fund_order"
                      /\ result'.caller = orders[id].maker
                      /\ orders[id].status = "Pending"
                      /\ orders'[id] = [orders[id] EXCEPT !.status = "Funded"]
                   \/ /\ result'.op = "claim_order"
                      /\ result'.caller = orders[id].taker
                      /\ orders[id].status = "Funded"
                      /\ orders'[id] = [orders[id] EXCEPT !.status = "Claimed",
                                                          !.secret = <<result'.secret>>]
                   \/ /\ result'.op = "refund_order"
                      /\ result'.caller = orders[id].maker
                      /\ orders[id].status = "Funded"
                      /\ orders'[id] = [orders[id] EXCEPT !.status = "Refunded"]]_vars

\* The maker funded a Pending order: it is Funded and the other party's
\* fund_order on it is refused.
C14_Witness ==
    /\ result.op = "fund_order"
    /\ orders[result.id].status = "Funded"
    /\ result.caller = orders[result.id].maker
    /\ RefundOrderError(result.id, orders[result.id].taker) = "Only maker can refund order"

----------------------------------------------------------------------------
(* f64 arithmetic, as calculate_rewards uses it (fusion-pool lib.rs:405-408). *)
(* A float is <<m, e>>, standing for m * 2^e with m < 2^MantissaBits;         *)
(* every operation rounds its exact result to the nearest float, ties to     *)
(* even, as IEEE 754 does.  The exponent range of f64 is never reached.      *)

\* Bits of significand that stand for the 53 of f64 (as AmountWidth stands
\* for 128).
MantissaBits == 6

RECURSIVE BitLength(_)
BitLength(n) == IF n = 0 THEN 0 ELSE 1 + BitLength(n \div 2)

\* The float nearest to n * 2^e.
RoundToF64(n, e) ==
    IF BitLength(n) <= MantissaBits THEN <<n, e>>
    ELSE LET k == BitLength(n) - MantissaBits
             q == n \div (2 ^ k)
             r == n % (2 ^ k)
             half == 2 ^ (k - 1)
             up == r > half \/ (r = half /\ q % 2 = 1)
         IN  IF up THEN <<q + 1, e + k>> ELSE <<q, e + k>>

\* x as f64
ToF64(x) == RoundToF64(x, 0)

\* a / b on floats, b # 0: the quotient is taken with MantissaBits + 2 spare
\* bits and a sticky bit for the remainder, then rounded.
DivF64(a, b) ==
    LET s == 2 * MantissaBits + 3
        num == a[1] * (2 ^ s)
        q == num \div b[1]
        sticky == IF num % b[1] = 0 THEN 0 ELSE 1
    IN  IF a[1] = 0 THEN <<0, 0>>
        ELSE RoundToF64(2 * q + sticky, a[2] - b[2] - s - 1)

\* a * b on floats.
MulF64(a, b) == RoundToF64(a[1] * b[1], a[2] + b[2])

\* f as u128: truncates toward zero and saturates at u128::MAX.
F64ToU128(f) ==
    IF f[1] = 0 THEN 0
    ELSE IF f[2] >= 0
         THEN IF f[2] + BitLength(f[1]) > AmountWidth THEN Modulus - 1
              ELSE f[1] * (2 ^ f[2])
    ELSE IF -f[2] >= 2 * MantissaBits + 4 THEN 0
    ELSE f[1] \div (2 ^ (-f[2]))

----------------------------------------------------------------------------
(* The FusionPool contract (src/near-contracts/fusion-pool/src/lib.rs).      *)
(* deposit_liquidity is taken to receive the deposit attached to the call.  *)
(* The name and description of a pool are left out: no method reads them.   *)

\* a + b, a - b or a * b leaves the range of u128.
AddOverflows(a, b) == a + b >= Modulus
SubOverflows(a, b) == a < b
MulOverflows(a, b) == b # 0 /\ a > (Modulus - 1) \div b

\* map.insert(&k, &v)
Insert(map, k, v) == [x \in DOMAIN map \cup {k} |-> IF x = k THEN v ELSE map[x]]

\* map.get(&k).unwrap_or_default() for a Vec
GetOrEmpty(map, k) == IF k \in DOMAIN map THEN map[k] ELSE <<>>

\* format!("{}_{}", provider, pool_id)   lib.rs:243
ProviderKey(provider, pool_id) == provider \o "_" \o pool_id

\* format!("tx_{}_{}", user, env::block_timestamp())   lib.rs:269
TxId(user) == "tx_" \o user \o "_" \o ToString(block_timestamp)

PoolTransaction(user, pool_id, action, amount, shares) ==
    [id |-> TxId(user), pool_id |-> pool_id, user |-> user, action |-> action,
     amount |-> amount, shares |-> shares, timestamp |-> block_timestamp]

\* The ft_transfer promise a pool method returns (lib.rs:287-290).
PoolTransfer(kind, pool_id, receiver, amount) ==
    [kind |-> kind, order_id |-> pool_id, gen |-> 0, receiver |-> receiver,
     amount |-> amount, fee |-> 0, status |-> "pending", from_amount |-> amount,
     rate |-> 0, backed |-> TRUE]

\* create_pool without the fee assert of lib.rs:166-171.
CreatePoolErrorWithoutFeeCheck(rate, min_deposit, max_deposit) ==
    IF ~(min_deposit <= max_deposit) THEN "Min deposit must be less than max deposit"
    ELSE IF ~(min_deposit >= fusion_pool.min_deposit_amount) THEN "Min deposit too low"
    ELSE ""

CreatePoolError(rate, min_deposit, max_deposit) ==
    IF ~(rate >= fusion_pool.min_pool_fee /\ rate <= fusion_pool.max_pool_fee)
    THEN "Fee rate must be between min and max basis points"
    ELSE IF ~(min_deposit <= max_deposit) THEN "Min deposit must be less than max deposit"
    ELSE IF ~(min_deposit >= fusion_pool.min_deposit_amount) THEN "Min deposit too low"
    ELSE ""

create_pool(caller, pool_id, token, rate, min_deposit, max_deposit) ==
    LET err == CreatePoolError(rate, min_deposit, max_deposit)
        pool == [id |-> pool_id, solver |-> caller, token |-> token,
                 total_liquidity |-> 0, available_liquidity |-> 0, total_shares |-> 0,
                 fee_rate |-> rate, min_deposit |-> min_deposit,
                 max_deposit |-> max_deposit, is_active |-> TRUE,
                 created_at |-> block_timestamp, last_updated |-> block_timestamp]
        reward == [pool_id |-> pool_id, total_rewards |-> 0, distributed_rewards |-> 0,
                   reward_rate |-> 100, last_distribution |-> block_timestamp,
                   next_distribution |->
                       block_timestamp + fusion_pool.reward_distribution_interval]
    IN  IF err # "" THEN Rejected
        ELSE /\ pool_calls < MaxPoolCalls
             /\ pool_calls' = pool_calls + 1
             /\ fusion_pool' = [fusion_pool EXCEPT
                    !.pools = Insert(@, pool_id, pool),
                    !.solver_pools = Insert(@, caller, Append(GetOrEmpty(@, caller), pool_id)),
                    !.rewards = Insert(@, pool_id, reward),
                    !.total_pools = @ + 1]
             /\ result' = Call("create_pool", caller, pool_id, "")
             /\ UNCHANGED <<escrowVars, htlcs, now, transfers, instance, overflow_checks, solverVars,
                            known, creates>>

\* lib.rs:228-232
SharesToMint(attached_deposit, pool) ==
    IF pool.total_shares = 0 THEN attached_deposit
    ELSE WrapMul(attached_deposit, pool.total_shares) \div pool.total_liquidity

\* A panic in the arithmetic of lib.rs:231-283: the division by zero in every
\* build, an overflow in a build that checks for it.
DepositArithmeticPanics(provider, pool_id, attached_deposit) ==
    LET pool == fusion_pool.pools[pool_id]
        key == ProviderKey(provider, pool_id)
        shares == SharesToMint(attached_deposit, pool)
        known_provider == key \in DOMAIN fusion_pool.providers
    IN  \/ pool.total_shares # 0 /\ pool.total_liquidity = 0
        \/ /\ overflow_checks
           /\ \/ pool.total_shares # 0 /\ MulOverflows(attached_deposit, pool.total_shares)
              \/ AddOverflows(pool.total_liquidity, attached_deposit)
              \/ AddOverflows(pool.available_liquidity, attached_deposit)
              \/ AddOverflows(pool.total_shares, shares)
              \/ known_provider /\ AddOverflows(fusion_pool.providers[key].shares, shares)
              \/ known_provider /\ AddOverflows(fusion_pool.providers[key].deposited_amount,
                                                attached_deposit)
              \/ AddOverflows(fusion_pool.total_liquidity, attached_deposit)

DepositLiquidityError(provider, pool_id, attached_deposit) ==
    IF pool_id \notin DOMAIN fusion_pool.pools THEN "Pool not found"
    ELSE IF ~fusion_pool.pools[pool_id].is_active THEN "Pool is not active"
    ELSE IF ~(attached_deposit >= fusion_pool.pools[pool_id].min_deposit) THEN "Deposit too small"
    ELSE IF ~(attached_deposit <= fusion_pool.pools[pool_id].max_deposit) THEN "Deposit too large"
    ELSE IF DepositArithmeticPanics(provider, pool_id, attached_deposit)
         THEN "arithmetic panic"
    ELSE ""

\* The pool update as it would be if a deposit were not added to
\* total_liquidity.
PoolAfterDepositWithoutTotal(pool, attached_deposit, shares_to_mint) ==
    [pool EXCEPT !.available_liquidity = WrapAdd(@, attached_deposit),
                 !.total_shares = WrapAdd(@, shares_to_mint),
                 !.last_updated = block_timestamp]

\* lib.rs:235-238
PoolAfterDeposit(pool, attached_deposit, shares_to_mint) ==
    [pool EXCEPT !.total_liquidity = WrapAdd(@, attached_deposit),
                 !.available_liquidity = WrapAdd(@, attached_deposit),
                 !.total_shares = WrapAdd(@, shares_to_mint),
                 !.last_updated = block_timestamp]

deposit_liquidity(provider, pool_id, attached_deposit) ==
    LET err == DepositLiquidityError(provider, pool_id, attached_deposit)
        pool == fusion_pool.pools[pool_id]
        shares_to_mint == SharesToMint(attached_deposit, pool)
        provider_key == ProviderKey(provider, pool_id)
        liquidity_provider ==
            IF provider_key \in DOMAIN fusion_pool.providers
            THEN fusion_pool.providers[provider_key]
            ELSE [account_id |-> provider, pool_id |-> pool_id, shares |-> 0,
                  deposited_amount |-> 0, claimed_rewards |-> 0,
                  joined_at |-> block_timestamp, last_claim |-> block_timestamp]
        user_pools == GetOrEmpty(fusion_pool.user_pools, provider)
    IN  IF err # "" THEN Rejected
        ELSE /\ pool_calls < MaxPoolCalls
             /\ pool_calls' = pool_calls + 1
             /\ fusion_pool' = [fusion_pool EXCEPT
                    !.pools = Insert(@, pool_id,
                                     PoolAfterDeposit(pool, attached_deposit, shares_to_mint)),
                    !.providers = Insert(@, provider_key,
                        [liquidity_provider EXCEPT
                            !.shares = WrapAdd(@, shares_to_mint),
                            !.deposited_amount = WrapAdd(@, attached_deposit)]),
                    !.user_pools =
                        IF \E i \in 1..Len(user_pools) : user_pools[i] = pool_id THEN @
                        ELSE Insert(@, provider, Append(user_pools, pool_id)),
                    !.transactions = Insert(@, TxId(provider),
                        PoolTransaction(provider, pool_id, "Deposit", attached_deposit,
                                        shares_to_mint)),
                    !.total_liquidity = WrapAdd(@, attached_deposit),
                    !.total_providers = @ + 1]
             /\ transfers' = transfers \cup
                    {PoolTransfer("deposit", pool_id, "pool", attached_deposit)}
             /\ result' = Call("deposit_liquidity", provider, pool_id, "")
             /\ UNCHANGED <<escrowVars, htlcs, now, instance, overflow_checks, solverVars, known,
                            creates>>

\* lib.rs:305
WithdrawalAmount(shares, pool) ==
    WrapMul(shares, pool.total_liquidity) \div pool.total_shares

\* A panic in computing the withdrawal amount (lib.rs:305).
WithdrawalAmountPanics(shares, pool) ==
    \/ pool.total_shares = 0
    \/ overflow_checks /\ MulOverflows(shares, pool.total_liquidity)

\* An overflow in the updates of lib.rs:309-337, in a build that checks.
WithdrawUpdatePanics(provider, pool_id, shares) ==
    LET pool == fusion_pool.pools[pool_id]
        liquidity_provider == fusion_pool.providers[ProviderKey(provider, pool_id)]
        withdrawal_amount == WithdrawalAmount(shares, pool)
    IN  /\ overflow_checks
        /\ \/ SubOverflows(pool.total_liquidity, withdrawal_amount)
           \/ SubOverflows(pool.total_shares, shares)
           \/ SubOverflows(liquidity_provider.deposited_amount, withdrawal_amount)
           \/ SubOverflows(fusion_pool.total_liquidity, withdrawal_amount)

\* withdraw_liquidity without the assert of lib.rs:306.
WithdrawLiquidityErrorWithoutLiquidityCheck(provider, pool_id, shares) ==
    IF pool_id \notin DOMAIN fusion_pool.pools THEN "Pool not found"
    ELSE IF ~fusion_pool.pools[pool_id].is_active THEN "Pool is not active"
    ELSE IF ProviderKey(provider, pool_id) \notin DOMAIN fusion_pool.providers
         THEN "Provider not found"
    ELSE IF ~(fusion_pool.providers[ProviderKey(provider, pool_id)].shares >= shares)
         THEN "Insufficient shares"
    ELSE IF WithdrawalAmountPanics(shares, fusion_pool.pools[pool_id])
         THEN "arithmetic panic"
    ELSE IF WithdrawUpdatePanics(provider, pool_id, shares) THEN "arithmetic panic"
    ELSE ""

WithdrawLiquidityError(provider, pool_id, shares) ==
    IF pool_id \notin DOMAIN fusion_pool.pools THEN "Pool not found"
    ELSE IF ~fusion_pool.pools[pool_id].is_active THEN "Pool is not active"
    ELSE IF ProviderKey(provider, pool_id) \notin DOMAIN fusion_pool.providers
         THEN "Provider not found"
    ELSE IF ~(fusion_pool.providers[ProviderKey(provider, pool_id)].shares >= shares)
         THEN "Insufficient shares"
    ELSE IF WithdrawalAmountPanics(shares, fusion_pool.pools[pool_id])
         THEN "arithmetic panic"
    ELSE IF ~(WithdrawalAmount(shares, fusion_pool.pools[pool_id])
                <= fusion_pool.pools[pool_id].available_liquidity)
         THEN "Insufficient liquidity"
    ELSE IF WithdrawUpdatePanics(provider, pool_id, shares) THEN "arithmetic panic"
    ELSE ""

\* lib.rs:309-312
PoolAfterWithdraw(pool, withdrawal_amount, shares) ==
    [pool EXCEPT !.total_liquidity = WrapSub(@, withdrawal_amount),
                 !.available_liquidity = WrapSub(@, withdrawal_amount),
                 !.total_shares = WrapSub(@, shares),
                 !.last_updated = block_timestamp]

withdraw_liquidity(provider, pool_id, shares) ==
    LET err == WithdrawLiquidityError(provider, pool_id, shares)
        pool == fusion_pool.pools[pool_id]
        provider_key == ProviderKey(provider, pool_id)
        withdrawal_amount == WithdrawalAmount(shares, pool)
    IN  IF err # "" THEN Rejected
        ELSE /\ pool_calls < MaxPoolCalls
             /\ pool_calls' = pool_calls + 1
             /\ fusion_pool' = [fusion_pool EXCEPT
                    !.pools = Insert(@, pool_id,
                                     PoolAfterWithdraw(pool, withdrawal_amount, shares)),
                    !.providers[provider_key].shares = WrapSub(@, shares),
                    !.providers[provider_key].deposited_amount =
                        WrapSub(@, withdrawal_amount),
                    !.transactions = Insert(@, TxId(provider),
                        PoolTransaction(provider, pool_id, "Withdraw", withdrawal_amount,
                                        shares)),
                    !.total_liquidity = WrapSub(@, withdrawal_amount)]
             /\ transfers' = transfers \cup
                    {PoolTransfer("withdraw", pool_id, provider, withdrawal_amount)}
             /\ result' = Call("withdraw_liquidity", provider, pool_id, "")
             /\ UNCHANGED <<escrowVars, htlcs, now, instance, overflow_checks, solverVars, known,
                            creates>>

\* lib.rs:395-409
calculate_rewards(pool, reward, provider) ==
    IF pool.total_shares = 0 \/ provider.shares = 0 THEN 0
    ELSE LET provider_share == DivF64(ToF64(provider.shares), ToF64(pool.total_shares))
             total_rewards == WrapSub(reward.total_rewards, reward.distributed_rewards)
         IN  F64ToU128(MulF64(ToF64(total_rewards), provider_share))

\* An overflow in lib.rs:406 or in the updates of lib.rs:361-385, in a build
\* that checks.
ClaimRewardsPanics(caller, pool_id) ==
    LET pool == fusion_pool.pools[pool_id]
        reward == fusion_pool.rewards[pool_id]
        liquidity_provider == fusion_pool.providers[ProviderKey(caller, pool_id)]
        reward_amount == calculate_rewards(pool, reward, liquidity_provider)
    IN  /\ overflow_checks
        /\ \/ /\ pool.total_shares # 0 /\ liquidity_provider.shares # 0
              /\ SubOverflows(reward.total_rewards, reward.distributed_rewards)
           \/ AddOverflows(reward.distributed_rewards, reward_amount)
           \/ AddOverflows(liquidity_provider.claimed_rewards, reward_amount)
           \/ AddOverflows(fusion_pool.total_rewards_distributed, reward_amount)

ClaimRewardsError(caller, pool_id) ==
    IF pool_id \notin DOMAIN fusion_pool.pools THEN "Pool not found"
    ELSE IF pool_id \notin DOMAIN fusion_pool.rewards THEN "Reward not found"
    ELSE IF ProviderKey(caller, pool_id) \notin DOMAIN fusion_pool.providers
         THEN "Provider not found"
    ELSE IF ~(calculate_rewards(fusion_pool.pools[pool_id], fusion_pool.rewards[pool_id],
                  fusion_pool.providers[ProviderKey(caller, pool_id)]) > 0)
            /\ ~ClaimRewardsPanics(caller, pool_id)
         THEN "No rewards to claim"
    ELSE IF ClaimRewardsPanics(caller, pool_id) THEN "arithmetic panic"
    ELSE ""

claim_rewards(caller, pool_id) ==
    LET err == ClaimRewardsError(caller, pool_id)
        provider_key == ProviderKey(caller, pool_id)
        reward_amount == calculate_rewards(fusion_pool.pools[pool_id],
                             fusion_pool.rewards[pool_id], fusion_pool.providers[provider_key])
    IN  IF err # "" THEN Rejected
        ELSE /\ pool_calls < MaxPoolCalls
             /\ pool_calls' = pool_calls + 1
             /\ fusion_pool' = [fusion_pool EXCEPT
                    !.rewards[pool_id].distributed_rewards = WrapAdd(@, reward_amount),
                    !.rewards[pool_id].last_distribution = block_timestamp,
                    !.providers[provider_key].claimed_rewards = WrapAdd(@, reward_amount),
                    !.providers[provider_key].last_claim = block_timestamp,
                    !.transactions = Insert(@, TxId(caller),
                        PoolTransaction(caller, pool_id, "ClaimRewards", reward_amount, 0)),
                    !.total_rewards_distributed = WrapAdd(@, reward_amount)]
             /\ transfers' = transfers \cup
                    {PoolTransfer("reward", pool_id, caller, reward_amount)}
             /\ result' = Call("claim_rewards", caller, pool_id, "")
             /\ UNCHANGED <<escrowVars, htlcs, now, instance, overflow_checks, solverVars, known,
                            creates>>

\* add_rewards without the assert_eq of lib.rs:416.
AddRewardsErrorAnyCaller(caller, pool_id, amount) ==
    IF pool_id \notin DOMAIN fusion_pool.pools THEN "Pool not found"
    ELSE IF pool_id \notin DOMAIN fusion_pool.rewards THEN "Reward not found"
    ELSE IF overflow_checks
            /\ AddOverflows(fusion_pool.rewards[pool_id].total_rewards, amount)
         THEN "arithmetic panic"
    ELSE ""

AddRewardsError(caller, pool_id, amount) ==
    IF pool_id \notin DOMAIN fusion_pool.pools THEN "Pool not found"
    ELSE IF fusion_pool.pools[pool_id].solver # caller
         THEN "Only pool solver can add rewards"
    ELSE IF pool_id \notin DOMAIN fusion_pool.rewards THEN "Reward not found"
    ELSE IF overflow_checks
            /\ AddOverflows(fusion_pool.rewards[pool_id].total_rewards, amount)
         THEN "arithmetic panic"
    ELSE ""

add_rewards(caller, pool_id, amount) ==
    LET err == AddRewardsError(caller, pool_id, amount)
    IN  IF err # "" THEN Rejected
        ELSE /\ pool_calls < MaxPoolCalls
             /\ pool_calls' = pool_calls + 1
             /\ fusion_pool' = [fusion_pool EXCEPT
                    !.rewards[pool_id].total_rewards = WrapAdd(@, amount),
                    !.transactions = Insert(@, TxId(caller),
                        PoolTransaction(caller, pool_id, "FeeCollection", amount, 0))]
             /\ result' = Call("add_rewards", caller, pool_id, "")
             /\ UNCHANGED <<escrowVars, htlcs, now, transfers, instance, overflow_checks, solverVars,
                            known, creates>>

\* lib.rs:471-489: the four setters assert the caller is the owner.
OnlyPoolOwner(caller) == caller = fusion_pool.owner

set_min_pool_fee(caller, min_fee) ==
    IF ~OnlyPoolOwner(caller) THEN Rejected
    ELSE /\ fusion_pool' = [fusion_pool EXCEPT !.min_pool_fee = min_fee]
         /\ result' = Call("set_min_pool_fee", caller, "", "")
         /\ UNCHANGED <<escrowVars, htlcs, now, transfers, instance, overflow_checks, solverVars,
                        known, creates, pool_calls>>

set_max_pool_fee(caller, max_fee) ==
    IF ~OnlyPoolOwner(caller) THEN Rejected
    ELSE /\ fusion_pool' = [fusion_pool EXCEPT !.max_pool_fee = max_fee]
         /\ result' = Call("set_max_pool_fee", caller, "", "")
         /\ UNCHANGED <<escrowVars, htlcs, now, transfers, instance, overflow_checks, solverVars,
                        known, creates, pool_calls>>

set_min_deposit_amount(caller, min_amount) ==
    IF ~OnlyPoolOwner(caller) THEN Rejected
    ELSE /\ fusion_pool' = [fusion_pool EXCEPT !.min_deposit_amount = min_amount]
         /\ result' = Call("set_min_deposit_amount", caller, "", "")
         /\ UNCHANGED <<escrowVars, htlcs, now, transfers, instance, overflow_checks, solverVars,
                        known, creates, pool_calls>>

set_reward_distribution_interval(caller, interval) ==
    IF ~OnlyPoolOwner(caller) THEN Rejected
    ELSE /\ fusion_pool' = [fusion_pool EXCEPT !.reward_distribution_interval = interval]
         /\ result' = Call("set_reward_distribution_interval", caller, "", "")
         /\ UNCHANGED <<escrowVars, htlcs, now, transfers, instance, overflow_checks, solverVars,
                        known, creates, pool_calls>>

\* lib.rs:491-507
SetActiveError(caller, pool_id) ==
    IF pool_id \notin DOMAIN fusion_pool.pools THEN "Pool not found"
    ELSE IF fusion_pool.pools[pool_id].solver # caller
         THEN "Only pool solver can change the pool's activation"
    ELSE ""

deactivate_pool(caller, pool_id) ==
    IF SetActiveError(caller, pool_id) # "" THEN Rejected
    ELSE /\ fusion_pool' = [fusion_pool EXCEPT !.pools[pool_id].is_active = FALSE]
         /\ result' = Call("deactivate_pool", caller, pool_id, "")
         /\ UNCHANGED <<escrowVars, htlcs, now, transfers, instance, overflow_checks, solverVars,
                        known, creates, pool_calls>>

activate_pool(caller, pool_id) ==
    IF SetActiveError(caller, pool_id) # "" THEN Rejected
    ELSE /\ fusion_pool' = [fusion_pool EXCEPT !.pools[pool_id].is_active = TRUE]
         /\ result' = Call("activate_pool", caller, pool_id, "")
         /\ UNCHANGED <<escrowVars, htlcs, now, transfers, instance, overflow_checks, solverVars,
                        known, creates, pool_calls>>

----------------------------------------------------------------------------
(* PoolSpec: one pool id, created (and created again) by bob, who can also  *)
(* deactivate and activate it, two accounts that provide liquidity, and the *)
(* owner lowering the minimum deposit.                                      *)

PoolIds == {"pool1"}
\* Deposits: dust, and amounts whose product leaves the range of u128 as the
\* product of two deposits of 10^21 does.
PoolAmounts == {1, 3, 2 ^ ((AmountWidth + 1) \div 2), InitialMinDepositAmount}
\* Rewards: an amount every float holds, and one that `as f64` rounds up.
PoolRewardAmounts == {3, 2 ^ MantissaBits + 3}
PoolFeeRates == {5, 100}
\* min_deposit and max_deposit of a new pool.
PoolDepositLimits == {<<fusion_pool.min_deposit_amount, Modulus - 1>>, <<2, 1>>}
\* The share counts a provider asks to withdraw: one, and all it has.
WithdrawShares(provider, pool_id) ==
    {1} \cup (IF ProviderKey(provider, pool_id) \in DOMAIN fusion_pool.providers
              THEN {fusion_pool.providers[ProviderKey(provider, pool_id)].shares}
              ELSE {})

PoolNext ==
    \/ \E p \in PoolIds, r \in PoolFeeRates, l \in PoolDepositLimits :
          create_pool("bob", p, "usdc", r, l[1], l[2])
    \/ \E c \in Parties, p \in PoolIds, a \in PoolAmounts : deposit_liquidity(c, p, a)
    \/ \E c \in Parties, p \in PoolIds : \E sh \in WithdrawShares(c, p) :
          withdraw_liquidity(c, p, sh)
    \/ \E c \in Parties, p \in PoolIds : claim_rewards(c, p)
    \/ \E c \in Parties, p \in PoolIds, a \in PoolRewardAmounts : add_rewards(c, p, a)
    \/ \E c \in Admins : set_min_deposit_amount(c, 1)
    \/ \E c \in Parties, p \in PoolIds : deactivate_pool(c, p)
    \/ \E c \in Parties, p \in PoolIds : activate_pool(c, p)

PoolSpec == Init /\ [][PoolNext]_vars

----------------------------------------------------------------------------
(* Properties of the pool contract (PoolSpec) *)

Pools == DOMAIN fusion_pool.pools
Providers == DOMAIN fusion_pool.providers

\* C15: every pool has available_liquidity <= total_liquidity, whatever
\* create_pool, deposit_liquidity, withdraw_liquidity, claim_rewards and
\* add_rewards calls were made.
C15_AvailableAtMostTotal ==
    \A p \in Pools :
        fusion_pool.pools[p].available_liquidity <= fusion_pool.pools[p].total_liquidity

\* A pool that still holds liquidity after a deposit and a withdrawal.
C15_Witness ==
    /\ result.op = "withdraw_liquidity"
    /\ fusion_pool.pools[result.id].total_liquidity > 0
    /\ fusion_pool.pools[result.id].available_liquidity > 0

\* C16: every pool has total_shares = 0 exactly when total_liquidity = 0.
C16_NoSharesIffNoLiquidity ==
    \A p \in Pools :
        (fusion_pool.pools[p].total_shares = 0) <=> (fusion_pool.pools[p].total_liquidity = 0)

----------------------------------------------------------------------------
(* ShareSpec: the share arithmetic alone.  The pool is created once and    *)
(* only deposits and withdrawals follow: no rewards, no second create_pool. *)

ShareNext ==
    \/ \E p \in PoolIds :
          /\ p \notin Pools
          /\ create_pool("bob", p, "usdc", 100, fusion_pool.min_deposit_amount, Modulus - 1)
    \/ \E c \in Parties, p \in PoolIds, a \in PoolAmounts : deposit_liquidity(c, p, a)
    \/ \E c \in Parties, p \in PoolIds : \E sh \in WithdrawShares(c, p) :
          withdraw_liquidity(c, p, sh)
    \/ set_min_deposit_amount("owner", 1)

ShareSpec == Init /\ [][ShareNext]_vars

\* A step that is a successful deposit_liquidity.
DepositStep == result'.op = "deposit_liquidity" /\ fusion_pool' # fusion_pool

\* C17: pool share math round-trips: a deposit of D into an empty pool mints
\* D shares; a provider can withdraw all the shares it holds; and a provider
\* that has withdrawn all its shares has recovered exactly what it deposited
\* (its deposited_amount, deposits less withdrawals, is back to 0).
C17_ShareMathRoundTrips ==
    /\ [](\A k \in Providers :
            LET provider == fusion_pool.providers[k]
            IN  /\ provider.shares = 0 => provider.deposited_amount = 0
                /\ provider.shares > 0 =>
                      WithdrawLiquidityError(provider.account_id, provider.pool_id,
                                             provider.shares) = "")
    /\ [][DepositStep =>
            LET p == result'.id
                k == ProviderKey(result'.caller, p)
            IN  fusion_pool.pools[p].total_shares = 0 =>
                    /\ fusion_pool'.pools[p].total_shares =
                          fusion_pool'.pools[p].total_liquidity
                    /\ fusion_pool'.providers[k].shares =
                          fusion_pool'.providers[k].deposited_amount]_vars

----------------------------------------------------------------------------
\* A step that is a successful withdraw_liquidity.
WithdrawStep == result'.op = "withdraw_liquidity" /\ fusion_pool' # fusion_pool

\* The share counts a call may ask for: within and beyond the provider's shares.
ProbeShares(provider, pool_id) ==
    LET k == ProviderKey(provider, pool_id)
    IN  IF k \in Providers
        THEN {1, fusion_pool.providers[k].shares, fusion_pool.providers[k].shares + 1}
        ELSE {1}

\* C18: withdraw_liquidity is rejected, leaving the state unchanged, when the
\* caller asks for more shares than it holds, and when the amount computed
\* for the shares, shares * total_liquidity / total_shares, is more than the
\* pool's available_liquidity even though the caller holds the shares; a
\* withdrawal that succeeds takes no more shares than the provider had and
\* no more liquidity than was available.
C18_WithdrawBeyondAvailableRejected ==
    /\ [](\A c \in Parties, p \in Pools : \A sh \in ProbeShares(c, p) :
            LET k == ProviderKey(c, p)
                pool == fusion_pool.pools[p]
            IN  (/\ k \in Providers
                 /\ pool.total_shares # 0
                 /\ \/ sh > fusion_pool.providers[k].shares
                    \/ WithdrawalAmount(sh, pool) > pool.available_liquidity)
                    => WithdrawLiquidityError(c, p, sh) # "")
    /\ [][WithdrawStep =>
            LET p == result'.id
                k == ProviderKey(result'.caller, p)
            IN  /\ fusion_pool'.providers[k].shares <= fusion_pool.providers[k].shares
                /\ fusion_pool'.pools[p].available_liquidity
                      <= fusion_pool.pools[p].available_liquidity
                /\ fusion_pool.pools[p].available_liquidity
                      - fusion_pool'.pools[p].available_liquidity
                      = WithdrawalAmount(fusion_pool.providers[k].shares
                                           - fusion_pool'.providers[k].shares,
                                         fusion_pool.pools[p])]_vars

\* A provider holds shares whose amount the pool cannot pay, and a call to
\* withdraw them is answered "Insufficient liquidity".
C18_Witness ==
    \E c \in Parties, p \in Pools :
        LET k == ProviderKey(c, p)
        IN  /\ k \in Providers
            /\ fusion_pool.providers[k].shares > 0
            /\ fusion_pool.pools[p].total_shares # 0
            /\ WithdrawalAmount(fusion_pool.providers[k].shares, fusion_pool.pools[p])
                  > fusion_pool.pools[p].available_liquidity
            /\ WithdrawLiquidityError(c, p, fusion_pool.providers[k].shares)
                  = "Insufficient liquidity"

----------------------------------------------------------------------------
\* m <= floor(a * b / c) in unbounded integers, for c > 0 and operands below
\* Modulus, evaluated without a product wider than the checker's integers.
AtMostFloorMulDiv(m, a, b, c) ==
    LET base == 2 ^ (AmountWidth \div 2)
        hi   == a \div base
        lo   == a % base
        q1   == (hi * b) \div c
        r1   == (hi * b) % c
    IN  \/ q1 >= Modulus \div base
        \/ m <= q1 * base + (r1 * base + lo * b) \div c

\* C19: deposit_liquidity mints shares = amount when the pool has no shares
\* and otherwise exactly floor(amount * total_shares / total_liquidity); in
\* both cases minted * total_liquidity <= amount * total_shares, so that the
\* minted shares are never worth more than the amount deposited.
C19_DepositMintsFloorShares ==
    [][DepositStep =>
        LET pool   == fusion_pool.pools[result'.id]
            tx     == fusion_pool'.transactions[TxId(result'.caller)]
            amount == tx.amount
            minted == tx.shares
        IN  /\ pool.total_shares = 0 => minted = amount
            /\ pool.total_shares # 0 =>
                  /\ AtMostFloorMulDiv(minted, amount, pool.total_shares,
                                       pool.total_liquidity)
                  /\ ~AtMostFloorMulDiv(minted + 1, amount, pool.total_shares,
                                        pool.total_liquidity)
            /\ pool.total_liquidity # 0 =>
                  AtMostFloorMulDiv(minted, amount, pool.total_shares,
                                    pool.total_liquidity)]_vars

----------------------------------------------------------------------------
\* C20: in every reachable state every pool's reward record has
\* distributed_rewards <= total_rewards.
C20_DistributedAtMostTotal ==
    \A p \in DOMAIN fusion_pool.rewards :
        fusion_pool.rewards[p].distributed_rewards <= fusion_pool.rewards[p].total_rewards

----------------------------------------------------------------------------
\* A step that is a successful claim_rewards.
ClaimRewardsStep == result'.op = "claim_rewards" /\ fusion_pool' # fusion_pool

\* C21: claim_rewards pays exactly
\* floor(provider.shares * (total_rewards - distributed_rewards) / total_shares),
\* and a claim that succeeds pays more than 0.
C21_RewardIsIntegerFloor ==
    [][ClaimRewardsStep =>
        LET p        == result'.id
            pool     == fusion_pool.pools[p]
            reward   == fusion_pool.rewards[p]
            provider == fusion_pool.providers[ProviderKey(result'.caller, p)]
            paid     == fusion_pool'.transactions[TxId(result'.caller)].amount
            left     == reward.total_rewards - reward.distributed_rewards
        IN  /\ paid > 0
            /\ (left >= 0 /\ pool.total_shares # 0) =>
                  /\ AtMostFloorMulDiv(paid, provider.shares, left, pool.total_shares)
                  /\ ~AtMostFloorMulDiv(paid + 1, provider.shares, left,
                                        pool.total_shares)]_vars

----------------------------------------------------------------------------
\* A step that is a successful add_rewards.
AddRewardsStep == result'.op = "add_rewards" /\ fusion_pool' # fusion_pool

----------------------------------------------------------------------------
(* PoolAdminSpec: the owner's setters and create_pool by either party, with *)
(* fee rates and deposit limits on both sides of every bound.               *)

AdminFeeRates == {5, 10, 100, 1000, 2000}
AdminDepositLimits ==
    {<<1, 1>>, <<2, 1>>, <<InitialMinDepositAmount, Modulus - 1>>,
     <<InitialMinDepositAmount + 1, InitialMinDepositAmount>>}

PoolAdminNext ==
    \/ \E c \in Parties, p \in PoolIds, r \in AdminFeeRates, l \in AdminDepositLimits :
          create_pool(c, p, "usdc", r, l[1], l[2])
    \/ \E c \in Admins, f \in {5, 200} : set_min_pool_fee(c, f)
    \/ \E c \in Admins, f \in {50, 2000} : set_max_pool_fee(c, f)
    \/ \E c \in Admins, a \in {1, InitialMinDepositAmount + 1} : set_min_deposit_amount(c, a)
    \/ \E c \in Admins : set_reward_distribution_interval(c, NanosPerSec)

PoolAdminSpec == Init /\ [][PoolAdminNext]_vars

\* A step that is a successful create_pool of the pool contract.
CreatePoolStep == result'.op = "create_pool" /\ fusion_pool' # fusion_pool

\* What a successful create_pool leaves behind: the pool under its id with
\* zero balances and a zeroed reward record; any other step keeps the pools.
CreatePoolEffect ==
    [][IF CreatePoolStep
       THEN LET p == result'.id
            IN  /\ p \in DOMAIN fusion_pool'.pools
                /\ fusion_pool'.pools[p].id = p
                /\ fusion_pool'.pools[p].solver = result'.caller
                /\ fusion_pool'.pools[p].total_liquidity = 0
                /\ fusion_pool'.pools[p].available_liquidity = 0
                /\ fusion_pool'.pools[p].total_shares = 0
                /\ fusion_pool'.rewards[p].total_rewards = 0
                /\ fusion_pool'.rewards[p].distributed_rewards = 0
       ELSE fusion_pool'.pools = fusion_pool.pools]_vars

----------------------------------------------------------------------------
\* The number of times x occurs in the sequence seq.
Occurrences(seq, x) == Cardinality({i \in DOMAIN seq : seq[i] = x})

\* C24: a pool id p is listed in solver_pools[s] exactly when pools[p] exists
\* with pools[p].solver = s, and then it is listed once.
C24_SolverPoolsIndexConsistent ==
    \A s \in Accounts, p \in PoolIds :
        LET listed == Occurrences(GetOrEmpty(fusion_pool.solver_pools, s), p)
        IN  IF p \in Pools /\ fusion_pool.pools[p].solver = s
            THEN listed = 1
            ELSE listed = 0

----------------------------------------------------------------------------
(* FusionSolver (fusion-solver/src/lib.rs) *)

\* A method that returns without panicking and without writing anything.
Returned(op, caller, value) ==
    /\ result' = Call(op, caller, value, "")
    /\ UNCHANGED <<escrowVars, htlcs, fusion_pool, solverVars, now, transfers, instance,
                   overflow_checks, known, creates, pool_calls>>

\* lib.rs:203-216
NewSolver(solver_id, name) ==
    [account_id |-> solver_id, name |-> name, is_active |-> TRUE, total_solves |-> 0,
     success_rate |-> "0.0", total_volume |-> 0, total_fees |-> 0,
     registered_at |-> block_timestamp, last_active |-> block_timestamp]

\* register_solver without the check of lib.rs:199-201.
AlreadyRegisteredIgnored(solver_id) == FALSE

\* lib.rs:199: self.solvers.get(&solver_id).is_some()
AlreadyRegistered(solver_id) == solver_id \in DOMAIN fusion_solver.solvers

\* lib.rs:189-222: a registered caller gets `false`, nothing is written.
register_solver(caller, name) ==
    IF AlreadyRegistered(caller)
    THEN Returned("register_solver", caller, "false")
    ELSE /\ solver_calls < MaxSolverCalls
         /\ solver_calls' = solver_calls + 1
         /\ fusion_solver' = [fusion_solver EXCEPT
                !.solvers = Insert(@, caller, NewSolver(caller, name)),
                !.active_solvers = Insert(@, caller, caller)]
         /\ result' = Call("register_solver", caller, "true", "")
         /\ UNCHANGED <<escrowVars, htlcs, fusion_pool, quotes, now, transfers, instance,
                        overflow_checks, known, creates, pool_calls>>

\* lib.rs:235-237
SolverCreatePoolError(caller, rate) ==
    IF caller \notin DOMAIN fusion_solver.solvers THEN "Solver not found"
    ELSE IF ~fusion_solver.solvers[caller].is_active THEN "Solver is not active"
    ELSE IF ~(rate <= fusion_solver.max_solver_fee) THEN "Fee rate too high"
    ELSE ""

\* FusionSolver::create_pool, lib.rs:225-260
solver_create_pool(caller, pool_id, rate, min_order_size, max_order_size) ==
    LET pool == [id |-> pool_id, solver |-> caller, liquidity_providers |-> <<>>,
                 total_liquidity |-> 0, available_liquidity |-> 0, fee_rate |-> rate,
                 min_order_size |-> min_order_size, max_order_size |-> max_order_size,
                 is_active |-> TRUE, created_at |-> block_timestamp]
    IN  IF SolverCreatePoolError(caller, rate) # "" THEN Rejected
        ELSE /\ solver_calls < MaxSolverCalls
             /\ solver_calls' = solver_calls + 1
             /\ fusion_solver' = [fusion_solver EXCEPT
                    !.pools = Insert(@, pool_id, pool),
                    !.solver_pools = Insert(@, caller, Append(GetOrEmpty(@, caller), pool_id))]
             /\ result' = Call("solver_create_pool", caller, pool_id, "")
             /\ UNCHANGED <<escrowVars, htlcs, fusion_pool, quotes, now, transfers,
                            instance, overflow_checks, known, creates, pool_calls>>

\* lib.rs:295
QuoteId(user) == "quote_" \o user \o "_" \o ToString(block_timestamp)

\* lib.rs:287-307: no assertion; the request is stored under the quote id.
request_quote(caller, from_token, to_token, amount, deadline) ==
    LET quote_id == QuoteId(caller)
        request == [from_token |-> from_token, to_token |-> to_token, amount |-> amount,
                    user |-> caller, deadline |-> deadline]
    IN  /\ solver_calls < MaxSolverCalls
        /\ solver_calls' = solver_calls + 1
        /\ fusion_solver' = [fusion_solver EXCEPT
               !.pending_orders = Insert(@, quote_id, request)]
        /\ result' = Call("request_quote", caller, quote_id, "")
        /\ UNCHANGED <<escrowVars, htlcs, fusion_pool, quotes, now, transfers, instance,
                       overflow_checks, known, creates, pool_calls>>

\* lib.rs:323-333
ProvideQuoteError(caller, quote_id, pool_id) ==
    IF caller \notin DOMAIN fusion_solver.solvers THEN "Solver not found"
    ELSE IF ~fusion_solver.solvers[caller].is_active THEN "Solver is not active"
    ELSE IF pool_id \notin DOMAIN fusion_solver.pools THEN "Pool not found"
    ELSE IF fusion_solver.pools[pool_id].solver # caller
         THEN "Pool does not belong to solver"
    ELSE IF ~fusion_solver.pools[pool_id].is_active THEN "Pool is not active"
    ELSE IF quote_id \notin DOMAIN fusion_solver.pending_orders
         THEN "Quote request not found"
    ELSE IF ~(block_timestamp <= fusion_solver.pending_orders[quote_id].deadline)
         THEN "Quote request expired"
    ELSE ""

\* UnorderedMap::remove
Remove(map, k) == [x \in DOMAIN map \ {k} |-> map[x]]

\* provide_quote without the removal of lib.rs:350.
PendingAfterQuoteKept(pending_orders, quote_id) == pending_orders

\* lib.rs:350: self.pending_orders.remove(&quote_id)
PendingAfterQuote(pending_orders, quote_id) == Remove(pending_orders, quote_id)

\* lib.rs:310-353: the response is returned to the caller and not stored.
provide_quote(caller, quote_id, to_amount, pool_id) ==
    IF ProvideQuoteError(caller, quote_id, pool_id) # "" THEN Rejected
    ELSE LET request == fusion_solver.pending_orders[quote_id]
             response == [quote_id |-> quote_id, from_token |-> request.from_token,
                          to_token |-> request.to_token, from_amount |-> request.amount,
                          to_amount |-> to_amount, solver |-> caller, pool_id |-> pool_id]
         IN  /\ solver_calls < MaxSolverCalls
             /\ solver_calls' = solver_calls + 1
             /\ fusion_solver' = [fusion_solver EXCEPT
                    !.pending_orders = PendingAfterQuote(@, quote_id)]
             /\ quotes' = quotes \cup {response}
             /\ result' = Call("provide_quote", caller, quote_id, "")
             /\ UNCHANGED <<escrowVars, htlcs, fusion_pool, now, transfers, instance,
                            overflow_checks, known, creates, pool_calls>>

\* lib.rs:368
SolverOrderId(user) == "order_" \o user \o "_" \o ToString(block_timestamp)

\* lib.rs:356-396: no assertion; quote_id is not read.
solver_create_order(caller, quote_id, from_amount, to_amount, deadline, solver) ==
    LET order_id == SolverOrderId(caller)
        order == [id |-> order_id, user |-> caller, from_amount |-> from_amount,
                  to_amount |-> to_amount, deadline |-> deadline, solver |-> <<solver>>,
                  status |-> "Pending", created_at |-> block_timestamp,
                  filled_at |-> <<>>, tx_hash |-> <<>>]
    IN  /\ solver_calls < MaxSolverCalls
        /\ solver_calls' = solver_calls + 1
        /\ fusion_solver' = [fusion_solver EXCEPT
               !.orders = Insert(@, order_id, order),
               !.user_orders = Insert(@, caller, Append(GetOrEmpty(@, caller), order_id)),
               !.total_orders = @ + 1]
        /\ result' = Call("solver_create_order", caller, order_id, "")
        /\ UNCHANGED <<escrowVars, htlcs, fusion_pool, quotes, now, transfers, instance,
                       overflow_checks, known, creates, pool_calls>>

\* lib.rs:402-415, in the order the code checks; the additions of lib.rs:417
\* and 428 panic in a build that checks overflow.
\* execute_order as it would be if the solver lookup of lib.rs:415 did not
\* panic for an account that is not registered.
ExecuteOrderErrorWithoutSolverLookup(caller, order_id) ==
    IF order_id \notin DOMAIN fusion_solver.orders THEN "Order not found"
    ELSE IF fusion_solver.orders[order_id].status # "Pending" THEN "Order not pending"
    ELSE IF fusion_solver.orders[order_id].solver # <<caller>>
         THEN "Order not assigned to solver"
    ELSE IF ~(block_timestamp <= fusion_solver.orders[order_id].deadline)
         THEN "Order expired"
    ELSE ""

ExecuteOrderError(caller, order_id) ==
    IF order_id \notin DOMAIN fusion_solver.orders THEN "Order not found"
    ELSE IF fusion_solver.orders[order_id].status # "Pending" THEN "Order not pending"
    ELSE IF fusion_solver.orders[order_id].solver # <<caller>>
         THEN "Order not assigned to solver"
    ELSE IF ~(block_timestamp <= fusion_solver.orders[order_id].deadline)
         THEN "Order expired"
    ELSE IF caller \notin DOMAIN fusion_solver.solvers THEN "Solver not found"
    ELSE IF overflow_checks
            /\ \/ AddOverflows(fusion_solver.solvers[caller].total_volume,
                               fusion_solver.orders[order_id].from_amount)
               \/ AddOverflows(fusion_solver.total_volume,
                               fusion_solver.orders[order_id].from_amount)
         THEN "arithmetic panic"
    ELSE ""

\* lib.rs:399-431
execute_order(caller, order_id, tx_hash) ==
    IF ExecuteOrderError(caller, order_id) # "" THEN Rejected
    ELSE LET from_amount == fusion_solver.orders[order_id].from_amount
         IN  /\ solver_calls < MaxSolverCalls
             /\ solver_calls' = solver_calls + 1
             /\ fusion_solver' = [fusion_solver EXCEPT
                    !.orders[order_id].status = "Filled",
                    !.orders[order_id].filled_at = <<block_timestamp>>,
                    !.orders[order_id].tx_hash = <<tx_hash>>,
                    !.solvers[caller].total_solves = @ + 1,
                    !.solvers[caller].total_volume = WrapAdd(@, from_amount),
                    !.solvers[caller].last_active = block_timestamp,
                    !.solvers[caller].success_rate = "0.95",
                    !.total_volume = WrapAdd(@, from_amount)]
             /\ result' = Call("execute_order", caller, order_id, "")
             /\ UNCHANGED <<escrowVars, htlcs, fusion_pool, quotes, now, transfers,
                            instance, overflow_checks, known, creates, pool_calls>>

\* lib.rs:505-513 and 515-523: owner only; an unknown solver_id is ignored.
SetSolverActive(op, caller, solver_id, active) ==
    IF caller # fusion_solver.owner THEN Rejected
    ELSE IF solver_id \notin DOMAIN fusion_solver.solvers
    THEN Returned(op, caller, "")
    ELSE /\ fusion_solver' = [fusion_solver EXCEPT
                !.solvers[solver_id].is_active = active,
                !.active_solvers = IF active THEN Insert(@, solver_id, solver_id)
                                   ELSE Remove(@, solver_id)]
         /\ result' = Call(op, caller, solver_id, "")
         /\ UNCHANGED <<escrowVars, htlcs, fusion_pool, solver_calls, quotes, now,
                        transfers, instance, overflow_checks, known, creates, pool_calls>>

deactivate_solver(caller, solver_id) ==
    SetSolverActive("deactivate_solver", caller, solver_id, FALSE)

activate_solver(caller, solver_id) ==
    SetSolverActive("activate_solver", caller, solver_id, TRUE)

----------------------------------------------------------------------------
(* SolverSpec: two solvers that register, create a pool and answer quote    *)
(* requests, a user (alice) who asks for quotes and creates orders, the      *)
(* owner who deactivates and activates solvers, and the clock.               *)

SolverInstants == {0, 3600}
\* Deadlines in nanoseconds: the first instant and the last one.
SolverDeadlines == {0, 3600 * NanosPerSec}
SolverFeeRates == {100, 501}
\* The name a caller registers under: another one at each further attempt.
SolverNames(c) == IF c \in DOMAIN fusion_solver.solvers THEN {"n2"} ELSE {"n1"}
\* Quote ids a caller may name: pending, answered, and one never issued.
QuoteIds ==
    DOMAIN fusion_solver.pending_orders \cup {q.quote_id : q \in quotes} \cup {"quote_none"}
SolverOrderIds == DOMAIN fusion_solver.orders \cup {"order_none"}

SolverNext ==
    \/ \E c \in Parties : \E n \in SolverNames(c) : register_solver(c, n)
    \/ \E c \in Parties, p \in PoolIds, r \in SolverFeeRates :
          solver_create_pool(c, p, r, 1, 1000)
    \/ \E d \in SolverDeadlines : request_quote("alice", "usdc", "wnear", 1000, d)
    \/ \E c \in Parties, q \in QuoteIds, p \in PoolIds : provide_quote(c, q, 950, p)
    \/ \E q \in QuoteIds, d \in SolverDeadlines, sv \in Parties :
          solver_create_order("alice", q, 1000, 950, d, sv)
    \/ \E c \in Parties, id \in SolverOrderIds : execute_order(c, id, "tx")
    \/ \E c \in Admins, sv \in Parties : deactivate_solver(c, sv)
    \/ \E c \in Admins, sv \in Parties : activate_solver(c, sv)
    \/ \E t \in SolverInstants : AdvanceClock(t)

SolverSpec == Init /\ [][SolverNext]_vars

----------------------------------------------------------------------------
(* Properties of the solver contract (SolverSpec) *)

Solvers == DOMAIN fusion_solver.solvers

\* C25: register_solver by an account that is not registered creates an
\* active entry under the caller's id and returns true; by a registered
\* account it returns false and changes neither that entry nor the set of
\* active solvers nor anything else in the contract.
C25_RegisterRejectsDuplicates ==
    [][result'.op = "register_solver" =>
        LET c == result'.caller
        IN  IF c \in Solvers
            THEN /\ result'.id = "false"
                 /\ fusion_solver' = fusion_solver
            ELSE /\ result'.id = "true"
                 /\ c \in DOMAIN fusion_solver'.solvers
                 /\ fusion_solver'.solvers[c].account_id = c
                 /\ fusion_solver'.solvers[c].is_active
                 /\ fusion_solver'.solvers[c].total_solves = 0
                 /\ fusion_solver'.solvers[c].total_volume = 0
                 /\ c \in DOMAIN fusion_solver'.active_solvers
                 /\ \A o \in Solvers :
                        fusion_solver'.solvers[o] = fusion_solver.solvers[o]]_vars

\* A registered solver that the owner deactivated has called register_solver
\* again under another name and was answered false.
C25_Witness ==
    /\ result.op = "register_solver"
    /\ result.id = "false"
    /\ result.caller \in Solvers
    /\ fusion_solver.solvers[result.caller].name = "n1"
    /\ ~fusion_solver.solvers[result.caller].is_active
    /\ result.caller \notin DOMAIN fusion_solver.active_solvers

----------------------------------------------------------------------------
\* A step that is a successful provide_quote.
ProvideQuoteStep == result'.op = "provide_quote" /\ solver_calls' = solver_calls + 1

PendingQuotes == DOMAIN fusion_solver.pending_orders

----------------------------------------------------------------------------
\* A step that is a successful create_order of the solver contract.
SolverCreateOrderStep ==
    result'.op = "solver_create_order" /\ fusion_solver' # fusion_solver

\* C27: the solver contract's create_order stores a Pending order only for a
\* quote that provide_quote has returned, and the order's solver is the
\* solver of such a quote.
C27_OrderBindsAcceptedQuote ==
    [][SolverCreateOrderStep =>
        /\ fusion_solver'.orders[result'.id].status = "Pending"
        /\ \E q \in quotes :
              fusion_solver'.orders[result'.id].solver = <<q.solver>>]_vars

----------------------------------------------------------------------------
\* A step that is a successful execute_order.
ExecuteOrderStep == result'.op = "execute_order" /\ fusion_solver' # fusion_solver

\* The Filled orders assigned to solver sv.
FilledBy(sv) ==
    {id \in DOMAIN fusion_solver.orders :
        /\ fusion_solver.orders[id].status = "Filled"
        /\ fusion_solver.orders[id].solver = <<sv>>}

RECURSIVE SumFromAmount(_)
SumFromAmount(ids) ==
    IF ids = {} THEN 0
    ELSE LET id == CHOOSE x \in ids : TRUE
         IN  fusion_solver.orders[id].from_amount + SumFromAmount(ids \ {id})

\* C28: execute_order fills an order only for its assigned solver, while the
\* order is Pending and the deadline has not passed; and in every state each
\* solver's total_solves is the number of Filled orders assigned to it and
\* its total_volume the sum of their from_amount.
C28_ExecuteOrderAndStatistics ==
    /\ [][ExecuteOrderStep =>
            LET order == fusion_solver.orders[result'.id]
            IN  /\ order.status = "Pending"
                /\ order.solver = <<result'.caller>>
                /\ block_timestamp <= order.deadline
                /\ fusion_solver'.orders[result'.id].status = "Filled"]_vars
    /\ [](\A sv \in Solvers :
            /\ fusion_solver.solvers[sv].total_solves = Cardinality(FilledBy(sv))
            /\ fusion_solver.solvers[sv].total_volume = SumFromAmount(FilledBy(sv)))

----------------------------------------------------------------------------
(* FusionEscrow: cross-chain swap records (fusion-escrow/src/lib.rs:299-349) *)

\* enum SwapStatus, lib.rs:73-80
SwapStatuses ==
    {"Initiated", "EVMOrderFilled", "NEAROrderFunded", "Completed", "Failed", "Expired"}

\* lib.rs:313
SwapId(near_account) == "swap_" \o near_account \o "_" \o ToString(block_timestamp)

\* lib.rs:299-336: no assertion; the record is stored under the swap id.
create_cross_chain_swap(caller, evm_order_hash, from_amount, to_amount, hashlock, timelock) ==
    LET swap_id == SwapId(caller)
        swap == [evm_order_hash |-> evm_order_hash, near_order_id |-> "",
                 near_account |-> caller, from_amount |-> from_amount,
                 to_amount |-> to_amount, hashlock |-> hashlock, secret |-> <<>>,
                 timelock |-> timelock, status |-> "Initiated",
                 created_at |-> block_timestamp,
                 expires_at |-> block_timestamp + timelock * NanosPerSec]
    IN  /\ cross_chain_swaps' = Insert(cross_chain_swaps, swap_id, swap)
        /\ result' = Call("create_cross_chain_swap", caller, swap_id, "")
        /\ UNCHANGED <<owner, fee_rate, min_timelock, max_timelock, orders, user_orders,
                       supported_tokens, total_swaps, total_volume, total_fees, htlcs,
                       fusion_pool, solverVars, now, transfers, instance, overflow_checks,
                       known, creates, pool_calls>>

\* lib.rs:340-346
UpdateSwapStatusError(caller, swap_id) ==
    IF caller # owner THEN "Only owner can update swap status"
    ELSE IF swap_id \notin DOMAIN cross_chain_swaps THEN "Swap not found"
    ELSE ""

\* lib.rs:339-349
update_swap_status(caller, swap_id, status) ==
    IF UpdateSwapStatusError(caller, swap_id) # "" THEN Rejected
    ELSE /\ cross_chain_swaps' = [cross_chain_swaps EXCEPT ![swap_id].status = status]
         /\ result' = Call("update_swap_status", caller, swap_id, "")
         /\ UNCHANGED <<owner, fee_rate, min_timelock, max_timelock, orders, user_orders,
                        supported_tokens, total_swaps, total_volume, total_fees, htlcs,
                        fusion_pool, solverVars, now, transfers, instance,
                        overflow_checks, known, creates, pool_calls>>

----------------------------------------------------------------------------
(* SwapStatusSpec: the parties create swap records, the owner and another   *)
(* account call update_swap_status with every status, and the clock moves.  *)

SwapIds == DOMAIN cross_chain_swaps \cup {"swap_none"}

SwapStatusNext ==
    \/ \E c \in Parties :
          create_cross_chain_swap(c, "0xabc", 1000, 950, HexEncode(Sha256("s1")), 3600)
    \/ \E c \in Admins, id \in SwapIds, st \in SwapStatuses : update_swap_status(c, id, st)
    \/ \E t \in EscrowInstants : AdvanceClock(t)

SwapStatusSpec == Init /\ [][SwapStatusNext]_vars

\* The moves of a swap's status that the protocol allows.
SwapStatusMoves ==
    {<<"Initiated", "EVMOrderFilled">>, <<"EVMOrderFilled", "NEAROrderFunded">>,
     <<"NEAROrderFunded", "Completed">>}
    \cup ({"Initiated", "EVMOrderFilled", "NEAROrderFunded"} \X {"Failed", "Expired"})

\* C29: the status of a swap changes only along Initiated -> EVMOrderFilled ->
\* NEAROrderFunded -> Completed or to Failed / Expired, and never changes
\* once it is Completed, Failed or Expired.
C29_SwapStatusProgresses ==
    [][\A id \in DOMAIN cross_chain_swaps :
          /\ id \in DOMAIN cross_chain_swaps'
          /\ \/ cross_chain_swaps'[id].status = cross_chain_swaps[id].status
             \/ <<cross_chain_swaps[id].status, cross_chain_swaps'[id].status>>
                    \in SwapStatusMoves]_vars

\* C30: update_swap_status by any account but the owner is rejected, and the
\* status of a stored swap changes only in an update_swap_status call made
\* by the owner.
C30_OnlyOwnerChangesSwapStatus ==
    /\ [](\A c \in Accounts \ {owner}, id \in SwapIds :
            UpdateSwapStatusError(c, id) # "")
    /\ [][\A id \in DOMAIN cross_chain_swaps :
            cross_chain_swaps'[id].status # cross_chain_swaps[id].status =>
                /\ result'.op = "update_swap_status"
                /\ result'.caller = owner]_vars

----------------------------------------------------------------------------
(* HtlcSpec: the Solana HTLC program on its own.  Either party creates      *)
(* HTLCs for the other under the two hashlocks, and both parties try to     *)
(* redeem and to refund every account at every instant.                     *)

HtlcHashlocks == {Sha256(s) : s \in Secrets}
HtlcTimelocks == {0, 3600, 7200}
HtlcAmounts == {0, 950}
HtlcProbeAddresses == DOMAIN htlcs \cup {HtlcAddress(hl) : hl \in HtlcHashlocks}

HtlcNext ==
    \/ \E s \in Parties, hl \in HtlcHashlocks, tl \in HtlcTimelocks, a \in HtlcAmounts, ok \in BOOLEAN :
          create_htlc(s, CHOOSE r \in Parties : r # s, hl, tl, a, ok)
    \/ \E c \in Parties, h \in HtlcProbeAddresses, ok \in BOOLEAN :
          \E p \in known[c] : redeem_htlc(c, h, p, ok)
    \/ \E c \in Parties, h \in HtlcProbeAddresses, ok \in BOOLEAN : refund_htlc(c, h, ok)
    \/ \E t \in Instants : AdvanceClock(t)

HtlcSpec == Init /\ [][HtlcNext]_vars

\* C33: the funds of an HTLC leave it at most once.  No HTLC is both
\* withdrawn and refunded; an HTLC account changes only while neither flag is
\* set, and only by a redeem_htlc of its recorded recipient with a preimage
\* that hashes to its hashlock (which sets withdrawn alone) or by a refund_htlc
\* of its recorded sender at now >= timelock (which sets refunded alone);
\* and neither instruction goes through when its token transfer fails.
C33_HtlcFundsLeaveOnce ==
    /\ [](\A h \in DOMAIN htlcs : ~(htlcs[h].withdrawn /\ htlcs[h].refunded))
    /\ [](\A h \in HtlcProbeAddresses, c \in Parties, p \in Secrets :
              /\ RedeemHtlcError(h, c, p, FALSE) # ""
              /\ RefundHtlcError(h, c, FALSE) # "")
    /\ [][\A h \in DOMAIN htlcs :
              htlcs'[h] # htlcs[h] =>
                  /\ ~htlcs[h].withdrawn /\ ~htlcs[h].refunded
                  /\ htlcs'[h].htlc_token_account
                         = htlcs[h].htlc_token_account - htlcs[h].amount
                  /\ result'.id = h
                  /\ \/ /\ result'.op = "redeem_htlc"
                        /\ result'.caller = htlcs[h].recipient
                        /\ Hash(result'.secret) = htlcs[h].hashlock
                        /\ htlcs'[h].withdrawn /\ ~htlcs'[h].refunded
                     \/ /\ result'.op = "refund_htlc"
                        /\ result'.caller = htlcs[h].sender
                        /\ now >= htlcs[h].timelock
                        /\ htlcs'[h].refunded /\ ~htlcs'[h].withdrawn]_vars

\* An HTLC was refunded to its sender, and its recipient, who holds the
\* preimage, is turned away.
C33_Witness ==
    \E h \in DOMAIN htlcs : \E p \in known[htlcs[h].recipient] :
        /\ htlcs[h].refunded
        /\ htlcs[h].htlc_token_account = 0
        /\ Hash(p) = htlcs[h].hashlock
        /\ RedeemHtlcError(h, htlcs[h].recipient, p, TRUE) = "Already refunded"

\* A step that is a successful create_htlc.
CreateHtlcStep == result'.op = "create_htlc" /\ result' # result

\* C40: at most one HTLC exists per hashlock.  create_htlc goes through only
\* for a hashlock that has no HTLC account, with timelock > now and
\* amount > 0; it adds that one account and changes no other, so an account
\* that exists, redeemed and refunded ones included, is never replaced.
C40_OneHtlcPerHashlock ==
    /\ [](\A h1 \in DOMAIN htlcs, h2 \in DOMAIN htlcs :
              htlcs[h1].hashlock = htlcs[h2].hashlock => h1 = h2)
    /\ [](\A hl \in HtlcHashlocks, tl \in HtlcTimelocks, a \in HtlcAmounts, ok \in BOOLEAN :
              CreateHtlcError(hl, tl, a, ok) = "" =>
                  /\ HtlcAddress(hl) \notin DOMAIN htlcs
                  /\ tl > now
                  /\ a > 0)
    /\ [][CreateHtlcStep =>
              /\ result'.id \notin DOMAIN htlcs
              /\ DOMAIN htlcs' = DOMAIN htlcs \cup {result'.id}
              /\ \A h \in DOMAIN htlcs : htlcs'[h] = htlcs[h]]_vars
    /\ [][DOMAIN htlcs \subseteq DOMAIN htlcs']_vars

\* An HTLC was redeemed, and a create_htlc under its hashlock that is valid
\* otherwise is turned away.
C40_Witness ==
    \E h \in DOMAIN htlcs :
        /\ htlcs[h].withdrawn
        /\ \E tl \in HtlcTimelocks : tl > now
        /\ \A tl \in HtlcTimelocks :
              CreateHtlcError(htlcs[h].hashlock, tl, 950, TRUE) # ""

----------------------------------------------------------------------------
(* The funding deadline and the recorded secret of escrow orders (EscrowSpec) *)

\* C34: a Pending order that was not funded before its expires_at can no
\* longer be funded: at block_timestamp >= expires_at fund_order is rejected
\* for every caller, its maker included.
C34_FundRejectedAfterExpiry ==
    \A id \in DOMAIN orders :
        (orders[id].status = "Pending" /\ block_timestamp >= orders[id].expires_at) =>
            \A c \in Accounts : FundOrderError(id, c) # ""

\* C35: an order has a secret on record exactly when it is Claimed, a
\* recorded secret hashes to the hashlock of its order, and only claim_order
\* on that order puts a secret on record.
C35_SecretIffClaimed ==
    /\ [](\A id \in DOMAIN orders :
              /\ (orders[id].secret # <<>>) <=> (orders[id].status = "Claimed")
              /\ orders[id].secret # <<>> =>
                    /\ Len(orders[id].secret) = 1
                    /\ SecretMatches(orders[id].secret[1], orders[id].hashlock))
    /\ [][\A id \in DOMAIN orders' :
              ((id \notin DOMAIN orders \/ orders'[id].secret # orders[id].secret)
                  /\ orders'[id].secret # <<>>) =>
                 /\ result'.op = "claim_order"
                 /\ result'.id = id
                 /\ orders'[id].secret = <<result'.secret>>]_vars

\* One order is Claimed with its secret on record while a later order of the
\* same maker, under the same hashlock, is Pending with none.
C35_Witness ==
    \E id1 \in DOMAIN orders, id2 \in DOMAIN orders :
        /\ orders[id1].status = "Claimed"
        /\ orders[id1].secret = <<"s1">>
        /\ orders[id2].status = "Pending"
        /\ orders[id2].secret = <<>>
        /\ orders[id2].hashlock = orders[id1].hashlock

----------------------------------------------------------------------------
(* Further properties of the pool contract (PoolSpec) *)

\* C36: in every reachable state every pool has total_shares equal to
\* total_liquidity and total_liquidity equal to available_liquidity.
C36_SharesEqualLiquidity ==
    \A p \in Pools :
        /\ fusion_pool.pools[p].total_shares = fusion_pool.pools[p].total_liquidity
        /\ fusion_pool.pools[p].total_liquidity = fusion_pool.pools[p].available_liquidity

RECURSIVE SumShares(_)
\* The sum of the shares of the provider records under the given keys.
SumShares(keys) ==
    IF keys = {} THEN 0
    ELSE LET k == CHOOSE x \in keys : TRUE
         IN  fusion_pool.providers[k].shares + SumShares(keys \ {k})

RECURSIVE SumLiquidity(_)
\* The sum of total_liquidity over the given pools.
SumLiquidity(ids) ==
    IF ids = {} THEN 0
    ELSE LET p == CHOOSE x \in ids : TRUE
         IN  fusion_pool.pools[p].total_liquidity + SumLiquidity(ids \ {p})

\* C37: for every pool the shares of its provider records add up to the
\* pool's total_shares, also after create_pool was called again with the id
\* of an existing pool, and the contract's total_liquidity is the sum of the
\* pools' total_liquidity.
C37_SharesAndLiquiditySums ==
    /\ \A p \in Pools :
          SumShares({k \in Providers : fusion_pool.providers[k].pool_id = p})
              = fusion_pool.pools[p].total_shares
    /\ fusion_pool.total_liquidity = SumLiquidity(Pools)

\* C38: the rewards a provider has claimed from a pool never exceed its
\* pro-rata part of the pool's rewards:
\* claimed_rewards <= floor(shares * total_rewards / total_shares)
\* for every provider record with shares in a pool that has shares.
C38_ClaimsWithinProRata ==
    \A k \in Providers :
        LET provider == fusion_pool.providers[k]
            p == provider.pool_id
        IN  (p \in Pools /\ p \in DOMAIN fusion_pool.rewards
                /\ provider.shares > 0 /\ fusion_pool.pools[p].total_shares > 0) =>
                AtMostFloorMulDiv(provider.claimed_rewards, provider.shares,
                                  fusion_pool.rewards[p].total_rewards,
                                  fusion_pool.pools[p].total_shares)

----------------------------------------------------------------------------
(* ActivationSpec: either party creates the pool (and creates it again),    *)
(* both provide and withdraw liquidity, and both try to deactivate and to   *)
(* activate the pool.                                                       *)

ActivationNext ==
    \/ \E c \in Parties, p \in PoolIds :
          create_pool(c, p, "usdc", 100, fusion_pool.min_deposit_amount, Modulus - 1)
    \/ \E c \in Parties, p \in PoolIds : deposit_liquidity(c, p, InitialMinDepositAmount)
    \/ \E c \in Parties, p \in PoolIds : \E sh \in WithdrawShares(c, p) :
          withdraw_liquidity(c, p, sh)
    \/ \E c \in Parties, p \in PoolIds : deactivate_pool(c, p)
    \/ \E c \in Parties, p \in PoolIds : activate_pool(c, p)

ActivationSpec == Init /\ [][ActivationNext]_vars

\* C39: while a pool is deactivated every deposit_liquidity and every
\* withdraw_liquidity on it is rejected, and the is_active flag of a pool
\* changes only by a deactivate_pool or activate_pool call of the pool's
\* solver, so a deactivated pool stays closed to its providers until its
\* solver activates it.
C39_DeactivatedPoolIsFrozen ==
    /\ [](\A p \in Pools :
              ~fusion_pool.pools[p].is_active =>
                  \A c \in Parties :
                      /\ \A a \in PoolAmounts : DepositLiquidityError(c, p, a) # ""
                      /\ \A sh \in WithdrawShares(c, p) :
                            WithdrawLiquidityError(c, p, sh) # "")
    /\ [][\A p \in Pools :
              fusion_pool'.pools[p].is_active # fusion_pool.pools[p].is_active =>
                  /\ result'.op \in {"deactivate_pool", "activate_pool"}
                  /\ result'.id = p
                  /\ result'.caller = fusion_pool.pools[p].solver]_vars

----------------------------------------------------------------------------
(* PoolTransferSpec: the pool's calls together with the outcomes of the     *)
(* ft_transfer promises they return.                                        *)

PoolTransferKinds == {"deposit", "withdraw", "reward"}

PoolTransferNext ==
    \/ \E p \in PoolIds :
          create_pool("bob", p, "usdc", 100, fusion_pool.min_deposit_amount, Modulus - 1)
    \/ \E c \in Parties, p \in PoolIds : deposit_liquidity(c, p, InitialMinDepositAmount)
    \/ \E c \in Parties, p \in PoolIds : \E sh \in WithdrawShares(c, p) :
          withdraw_liquidity(c, p, sh)
    \/ \E c \in Parties, p \in PoolIds : claim_rewards(c, p)
    \/ \E p \in PoolIds : add_rewards("bob", p, 3)
    \/ \E t \in transfers, o \in {"ok", "failed"} : ResolveTransfer(t, o)

PoolTransferSpec == Init /\ [][PoolTransferNext]_vars

\* C32: the pool's accounting is backed by confirmed transfers: when the
\* ft_transfer of a deposit_liquidity, withdraw_liquidity or claim_rewards
\* call fails, the pool contract's state is rolled back in the same step, so
\* the credited or burned amounts do not stay on record.
C32_FailedPoolTransferRollsBack ==
    [][\A t \in transfers :
          (/\ t.kind \in PoolTransferKinds
           /\ t.status = "pending"
           /\ t \notin transfers'
           /\ [t EXCEPT !.status = "failed"] \in transfers') =>
              fusion_pool' # fusion_pool]_vars

----------------------------------------------------------------------------
(* RejectionSpec: calls on the escrow, the pool and the solver contract     *)
(* side by side, each with arguments that are accepted and arguments that   *)
(* run into a precondition, some of them after the method's first write.    *)

RejectionNext ==
    \/ \E tok \in Tokens : add_supported_token("owner", tok)
    \/ create_order("alice", "bob", "usdc", "wnear", 1000, 950, HexEncode(Sha256("s1")), 3600)
    \/ \E c \in Parties, id \in OrderIds : fund_order(c, id)
    \/ \E c \in Parties, id \in OrderIds, sec \in Secrets : claim_order(c, id, sec)
    \/ \E p \in PoolIds :
          create_pool("bob", p, "usdc", 100, fusion_pool.min_deposit_amount, Modulus - 1)
    \/ \E p \in PoolIds, a \in {1, InitialMinDepositAmount} : deposit_liquidity("alice", p, a)
    \/ \E c \in Parties, p \in PoolIds : \E sh \in ProbeShares(c, p) \ {1} :
          withdraw_liquidity(c, p, sh)
    \/ register_solver("alice", "n1")
    \/ \E sv \in Parties : solver_create_order("alice", "quote_none", 1000, 950, 0, sv)
    \/ \E c \in Parties, id \in SolverOrderIds : execute_order(c, id, "tx")

RejectionSpec == Init /\ [][RejectionNext]_vars

\* The shares on the provider record under key k, none when there is no record.
SharesOf(providers, k) == IF k \in DOMAIN providers THEN providers[k].shares ELSE 0

\* C31: a call that a precondition rejects changes nothing, so no step shows
\* a part of a call's effect.  A Pending order whose assigned solver is not
\* registered cannot be executed, and an order becomes Filled only together
\* with the statistics of its solver and of the contract; a withdrawal beyond
\* the provider's shares is rejected, and a provider's shares and the pool's
\* balances change only together, by the amounts of one accepted deposit or
\* withdrawal; an escrow order becomes Claimed only together with the
\* counters of an accepted claim.
C31_RejectedCallsChangeNothing ==
    /\ [](\A id \in DOMAIN fusion_solver.orders, c \in Parties :
              (/\ fusion_solver.orders[id].status = "Pending"
               /\ fusion_solver.orders[id].solver = <<c>>
               /\ c \notin Solvers) => ExecuteOrderError(c, id) # "")
    /\ [](\A c \in Parties, p \in Pools :
              ProviderKey(c, p) \in Providers =>
                  WithdrawLiquidityError(c, p,
                      fusion_pool.providers[ProviderKey(c, p)].shares + 1) # "")
    /\ [][\A id \in DOMAIN fusion_solver.orders :
              (fusion_solver'.orders[id].status = "Filled"
                  /\ fusion_solver.orders[id].status # "Filled") =>
                 LET sv == result'.caller
                     from_amount == fusion_solver.orders[id].from_amount
                 IN  /\ result'.op = "execute_order" /\ result'.id = id
                     /\ ExecuteOrderError(sv, id) = ""
                     /\ sv \in Solvers
                     /\ fusion_solver'.solvers[sv].total_solves
                            = fusion_solver.solvers[sv].total_solves + 1
                     /\ fusion_solver'.solvers[sv].total_volume
                            = WrapAdd(fusion_solver.solvers[sv].total_volume, from_amount)
                     /\ fusion_solver'.total_volume
                            = WrapAdd(fusion_solver.total_volume, from_amount)]_vars
    /\ [][(fusion_solver'.solvers # fusion_solver.solvers
              /\ DOMAIN fusion_solver'.solvers = Solvers) =>
                 /\ result'.op = "execute_order"
                 /\ fusion_solver'.orders[result'.id].status = "Filled"
                 /\ fusion_solver.orders[result'.id].status = "Pending"]_vars
    /\ [][(fusion_pool' # fusion_pool
              /\ result'.op \in {"deposit_liquidity", "withdraw_liquidity"}) =>
                 LET c == result'.caller
                     p == result'.id
                     k == ProviderKey(c, p)
                     pool == fusion_pool.pools[p]
                 IN  \/ /\ result'.op = "withdraw_liquidity"
                        /\ \E sh \in ProbeShares(c, p) :
                              LET amount == WithdrawalAmount(sh, pool)
                              IN  /\ WithdrawLiquidityError(c, p, sh) = ""
                                  /\ SharesOf(fusion_pool'.providers, k)
                                        = WrapSub(SharesOf(fusion_pool.providers, k), sh)
                                  /\ fusion_pool'.pools[p] = PoolAfterWithdraw(pool, amount, sh)
                                  /\ fusion_pool'.total_liquidity
                                        = WrapSub(fusion_pool.total_liquidity, amount)
                     \/ /\ result'.op = "deposit_liquidity"
                        /\ \E a \in PoolAmounts :
                              LET minted == SharesToMint(a, pool)
                              IN  /\ DepositLiquidityError(c, p, a) = ""
                                  /\ SharesOf(fusion_pool'.providers, k)
                                        = WrapAdd(SharesOf(fusion_pool.providers, k), minted)
                                  /\ fusion_pool'.pools[p] = PoolAfterDeposit(pool, a, minted)
                                  /\ fusion_pool'.total_liquidity
                                        = WrapAdd(fusion_pool.total_liquidity, a)]_vars
    /\ [][(fusion_pool'.providers # fusion_pool.providers
              \/ (fusion_pool'.pools # fusion_pool.pools /\ result'.op # "create_pool")) =>
                 result'.op \in {"deposit_liquidity", "withdraw_liquidity"}]_vars
    /\ [][\A id \in DOMAIN orders :
              (id \in DOMAIN orders' /\ orders'[id].status = "Claimed"
                  /\ orders[id].status # "Claimed") =>
                 /\ result'.op = "claim_order" /\ result'.id = id
                 /\ ClaimOrderError(id, result'.caller, result'.secret) = ""
                 /\ total_swaps' = total_swaps + 1
                 /\ total_volume' = WrapAdd(total_volume, orders[id].from_amount)]_vars
    /\ [][total_swaps' # total_swaps =>
              /\ result'.op = "claim_order"
              /\ orders[result'.id].status = "Funded"
              /\ orders'[result'.id].status = "Claimed"]_vars

\* A Pending order is assigned to bob, who is not registered and whose
\* execute_order ends at the solver lookup, after the method has written the
\* order; alice holds shares and her withdrawal of one share more is
\* rejected; and a Funded escrow order turns away the wrong secret.
C31_Witness ==
    /\ \E id \in DOMAIN fusion_solver.orders :
          /\ fusion_solver.orders[id].status = "Pending"
          /\ "bob" \notin Solvers
          /\ ExecuteOrderError("bob", id) = "Solver not found"
    /\ \E p \in Pools :
          /\ ProviderKey("alice", p) \in Providers
          /\ fusion_pool.providers[ProviderKey("alice", p)].shares > 0
          /\ WithdrawLiquidityError("alice", p,
                 fusion_pool.providers[ProviderKey("alice", p)].shares + 1) # ""
    /\ \E id \in DOMAIN orders :
          /\ orders[id].status = "Funded"
          /\ ClaimOrderError(id, "bob", "s2") = "Invalid secret"

====
